---- MODULE Spec2Model ----
(***************************************************************************)
(* A model of the LLVM backend of Braid: the lowering of a CompilerIR to   *)
(* an LLVM module (codegen, emit_proc / emit_prog, emit_fun, the closure   *)
(* ABI, the runtime prelude and the expression compile rules).             *)
(*                                                                         *)
(* The LLVM objects the backend holds by reference (builders, the          *)
(* named_values arrays, functions of the module) live in heaps indexed by  *)
(* naturals: two references are the same object iff the indices are equal. *)
(***************************************************************************)
EXTENDS Integers, Sequences, FiniteSets, TLC

\* --------------------------------------------------------------------------
\* Bounds of the explored inputs
\* --------------------------------------------------------------------------
MaxParams == 2      \* value parameters of a generated Proc: 0..MaxParams
MaxFree == 2        \* captured variables of a generated scope: 0..MaxFree
MaxOwned == 1       \* owned persists of a generated Prog: 0..MaxOwned

\* --------------------------------------------------------------------------
\* Small helpers
\* --------------------------------------------------------------------------
NULL == 0 - 1
UNDEF == [tag |-> "undefined"]

Get(map, key) == IF key \in DOMAIN map THEN map[key] ELSE UNDEF

Range(s) == {s[i] : i \in DOMAIN s}

\* --------------------------------------------------------------------------
\* Braid types (src/type.ts).  Class instances carry an object identity.
\* --------------------------------------------------------------------------
PrimitiveType(name, obj) == [tag |-> "Primitive", name |-> name, obj |-> obj]
INT == PrimitiveType("Int", 1)
FLOAT == PrimitiveType("Float", 2)
ANY == [tag |-> "Any"]
VOID == [tag |-> "Void"]
FunType(params, ret) == [tag |-> "Fun", params |-> params, ret |-> ret]
CodeType(inner) == [tag |-> "Code", inner |-> inner]
ParameterizedType(name) == [tag |-> "Parameterized", name |-> name]
InstanceType(cons, arg) == [tag |-> "Instance", cons |-> cons, arg |-> arg]

\* --------------------------------------------------------------------------
\* LLVM types
\* --------------------------------------------------------------------------
TypeError == [t |-> "error"]
int_t == [t |-> "i32"]
int8_t == [t |-> "i8"]
double_t == [t |-> "double"]
void_t == [t |-> "void"]
PointerType(to) == [t |-> "ptr", to |-> to]
ptr_t == PointerType(int8_t)
StructType(elems, packed) == [t |-> "struct", elems |-> elems, packed |-> packed]
FunctionType(ret, args) == [t |-> "fn", ret |-> ret, args |-> args]

HasTypeError(types) == \E i \in DOMAIN types : types[i] = TypeError

RECURSIVE llvm_type(_)

\* mutant: the types nested in a Fun or Code type are lowered without a look
\* at what the lowering gave
llvm_type_unchecked(type) ==
  IF type = INT THEN int_t
  ELSE IF type = FLOAT THEN double_t
  ELSE IF type.tag = "Fun" THEN
    StructType(<<PointerType(FunctionType(
                   llvm_type(type.ret),
                   Append([i \in 1..Len(type.params) |-> llvm_type(type.params[i])],
                          ptr_t))),
                 ptr_t>>, TRUE)
  ELSE IF type.tag = "Code" THEN
    StructType(<<PointerType(FunctionType(llvm_type(type.inner), <<ptr_t>>)), ptr_t>>, TRUE)
  ELSE TypeError

llvm_type(type) ==
  IF type = INT THEN int_t
  ELSE IF type = FLOAT THEN double_t
  ELSE IF type.tag = "Fun" THEN
    LET params == [i \in 1..Len(type.params) |-> llvm_type(type.params[i])]
        arg_types == Append(params, ptr_t)
        ret_type == llvm_type(type.ret)
    IN IF HasTypeError(params) \/ ret_type = TypeError THEN TypeError
       ELSE StructType(<<PointerType(FunctionType(ret_type, arg_types)), ptr_t>>, TRUE)
  ELSE IF type.tag = "Code" THEN
    LET arg_types == <<ptr_t>>
        ret_type == llvm_type(type.inner)
    IN IF ret_type = TypeError THEN TypeError
       ELSE StructType(<<PointerType(FunctionType(ret_type, arg_types)), ptr_t>>, TRUE)
  ELSE TypeError

\* mutant: no environment parameter is appended
get_func_type_no_env(ir, ret_id, arg_ids) ==
  LET ret_type == llvm_type(ir.type_table[ret_id][1])
      args == [i \in 1..Len(arg_ids) |-> llvm_type(ir.type_table[arg_ids[i]][1])]
  IN IF ret_type = TypeError \/ HasTypeError(args) THEN TypeError
     ELSE <<ret_type, args>>

\* [return type, argument types]; TypeError when a lowering throws.
get_func_type(ir, ret_id, arg_ids) ==
  LET ret_type == llvm_type(ir.type_table[ret_id][1])
      args == [i \in 1..Len(arg_ids) |-> llvm_type(ir.type_table[arg_ids[i]][1])]
      arg_types == Append(args, ptr_t)
  IN IF ret_type = TypeError \/ HasTypeError(args) THEN TypeError
     ELSE <<ret_type, arg_types>>

runtime_declarations ==
  << <<"mesh_indices", int_t, <<ptr_t>> >>,
     <<"mesh_positions", int_t, <<ptr_t>> >>,
     <<"mesh_normals", int_t, <<ptr_t>> >>,
     <<"get_shader", int_t, <<ptr_t, ptr_t>> >>,
     <<"draw_mesh", void_t, <<int_t, int_t>> >>,
     <<"print_mesh", void_t, <<ptr_t>> >>,
     <<"gl_buffer", int_t, <<int_t, ptr_t, ptr_t>> >>,
     <<"detect_error", void_t, <<>> >>,
     <<"load_obj", ptr_t, <<ptr_t, ptr_t>> >>,
     <<"create_window", ptr_t, <<>> >> >>

\* Symbol names (emitutil): the prefix followed by the id.
procsym(id) == "proc" \o ToString(id)
progsym(id) == "prog" \o ToString(id)
varsym(id) == "v" \o ToString(id)

\* --------------------------------------------------------------------------
\* The input IRs explored: a family of CompilerIR values
\* (scope graph, scope kinds, parameter / capture counts, a fault).
\* Scope index 0 is main; scopes 1..3 are the fun / quote nodes 1..3.
\* --------------------------------------------------------------------------
Shapes == {"leaf", "chain", "siblings", "diamond"}

ShapeChildren(shape) ==
  CASE shape = "leaf" -> (0 :> <<>>)
    [] shape = "chain" -> (0 :> <<1>>) @@ (1 :> <<2>>) @@ (2 :> <<>>)
    [] shape = "siblings" -> (0 :> <<1, 2>>) @@ (1 :> <<>>) @@ (2 :> <<>>)
    [] shape = "diamond" -> (0 :> <<1, 2>>) @@ (1 :> <<3>>) @@ (2 :> <<3>>) @@ (3 :> <<>>)

ScopeIxs(shape) == DOMAIN ShapeChildren(shape)
SubIxs(shape) == ScopeIxs(shape) \ {0}

\* What the final expression of scope fscope is (every other scope ends in a
\* lookup of its first variable, or in a literal when it has none).
NotImplementedKinds == {"extern", "persist", "escape", "if", "while", "macrocall"}
PlaceholderKinds == {"tuple", "tupleind", "alloc", "typealias"}
OperatorFaults == {"unary", "binary"}
\* "noscope": scope fscope is missing from the tables of the IR
Faults == {"none", "anytype", "noscope"} \cup NotImplementedKinds \cup PlaceholderKinds
            \cup {"let", "let_absent", "assign", "assign_free", "assign_absent", "lookup_absent",
                  "extern_lookup", "extern_assign"}
            \cup OperatorFaults

Node(tag, kids, op) == [tag |-> tag, kids |-> kids, op |-> op]

\* variables and parameters alternate between Int and Float
VarType(id) == IF id % 2 = 0 THEN FLOAT ELSE INT

FreeIds(c) == [j \in 1..c.nf |-> 10 + j]
OwnedEscapes(c) == [j \in 1..c.no |-> [id |-> 20 + j]]
ParamIds(c, s) == [i \in 1..c.np |-> 30 + 10 * s + i]
ExternId == 98                     \* definition id of the extern variable
AbsentId == 99                     \* definition id of a variable out of scope

BodyBase(s) == 100 * (s + 1)
RootId(s) == BodyBase(s)
SeqId(s, j) == BodyBase(s) + 10 * j
UseId(s, j) == BodyBase(s) + 10 * j + 1
ArgId(s, j, i) == BodyBase(s) + 10 * j + 1 + i
FinalId(s) == BodyBase(s) + 90
LhsId(s) == BodyBase(s) + 91       \* operand of the final expression
RhsId(s) == BodyBase(s) + 92       \* second operand of a final binary expression

IsProc(c, s) == s = 0 \/ c.kinds[s] = "proc"

\* The variables a scope holds in named_values while its body is emitted.
ScopeVars(c, s) ==
  IF s = 0 THEN FreeIds(c)
  ELSE IF IsProc(c, s) THEN ParamIds(c, s) \o FreeIds(c)
  ELSE FreeIds(c)

ChainId(c, s, j) ==
  IF j <= Len(ShapeChildren(c.shape)[s]) THEN SeqId(s, j) ELSE FinalId(s)

BodyId(c, s) == IF s = 0 /\ c.rooted THEN RootId(s) ELSE ChainId(c, s, 1)

LiteralOf(type) ==
  IF type = INT THEN Node("literal", <<>>, "int")
  ELSE IF type = FLOAT THEN Node("literal", <<>>, "float")
  ELSE Node("literal", <<>>, "string")

\* the final expression of scope s and its operands
FinalNodes(c, s) ==
  LET vars == ScopeVars(c, s)
      here == c.fscope = s
      f == IF here THEN c.fault ELSE "none"
  IN CASE f \in NotImplementedKinds \cup PlaceholderKinds ->
            (FinalId(s) :> Node(f, <<>>, ""))
       [] f \in {"let", "let_absent", "assign", "assign_free", "assign_absent",
                 "extern_assign"} ->
            (FinalId(s) :> Node(IF f \in {"let", "let_absent"} THEN "let" ELSE "assign",
                                <<LhsId(s)>>, ""))
              @@ (LhsId(s) :> LiteralOf(INT))
       [] f \in {"lookup_absent", "extern_lookup"} ->
            (FinalId(s) :> Node("lookup", <<>>, ""))
       [] f = "unary" ->
            (FinalId(s) :> Node("unary", <<LhsId(s)>>, c.bop))
              @@ (LhsId(s) :> LiteralOf(c.lt))
       [] f = "binary" ->
            (FinalId(s) :> Node("binary", <<LhsId(s), RhsId(s)>>, c.bop))
              @@ (LhsId(s) :> LiteralOf(c.lt)) @@ (RhsId(s) :> LiteralOf(c.rt))
       [] OTHER ->
            (FinalId(s) :> IF Len(vars) > 0 THEN Node("lookup", <<>>, "")
                           ELSE Node("literal", <<>>, "int"))

\* the type of the final expression of scope s, and so of its body
FinalType(c, s) ==
  IF c.fscope # s THEN INT
  ELSE IF c.fault = "unary" /\ c.lt = FLOAT THEN FLOAT
  ELSE IF c.fault = "binary" /\ {c.lt, c.rt} \subseteq {INT, FLOAT} /\ FLOAT \in {c.lt, c.rt}
  THEN FLOAT
  ELSE INT

\* The nodes of the body of scope s: for each child a call (Proc) or a run
\* (Prog) of its closure (or a tuple holding the closure), in sequence, then
\* the final expression.  Argument i of a call is a lookup of the i-th
\* variable shared by all scopes when there is one, else a literal.
ScopeNodes(c, s) ==
  LET kids == ShapeChildren(c.shape)[s]
      root == IF s = 0 /\ c.rooted
              THEN (RootId(s) :> Node("root", <<ChainId(c, s, 1)>>, ""))
              ELSE <<>>
      seqs == [n \in {SeqId(s, j) : j \in 1..Len(kids)} |->
                 LET j == CHOOSE j \in 1..Len(kids) : SeqId(s, j) = n
                 IN Node("seq", <<UseId(s, j), ChainId(c, s, j + 1)>>, "")]
      uses == [n \in {UseId(s, j) : j \in 1..Len(kids)} |->
                 LET j == CHOOSE j \in 1..Len(kids) : UseId(s, j) = n
                 IN IF c.use = "tuple" THEN Node("tuple", <<kids[j]>>, "")
                    ELSE IF c.use = "pure" THEN Node("seq", <<kids[j], ArgId(s, j, 1)>>, "")
                    ELSE IF IsProc(c, kids[j])
                    THEN Node("call", <<kids[j]>> \o [i \in 1..c.np |-> ArgId(s, j, i)], "")
                    ELSE Node("run", <<kids[j]>>, "")]
      argids == UNION {{ArgId(s, j, i) : i \in 1..c.np} :
                         j \in {j \in 1..Len(kids) : IsProc(c, kids[j])}}
      args == [n \in argids |->
                 LET i == CHOOSE i \in 1..c.np : \E j \in 1..Len(kids) : ArgId(s, j, i) = n
                 IN IF i <= c.nf THEN Node("lookup", <<>>, "")
                    ELSE LiteralOf(VarType(i))]
      pures == IF c.use = "pure"
               THEN [n \in {ArgId(s, j, 1) : j \in 1..Len(kids)} |-> LiteralOf(INT)]
               ELSE <<>>
  IN FinalNodes(c, s) @@ root @@ seqs @@ uses @@ pures @@ args

ClosureNodes(c) ==
  [s \in SubIxs(c.shape) |->
     IF IsProc(c, s) THEN Node("fun", <<>>, "") ELSE Node("quote", <<>>, "")]

RECURSIVE MergeAll(_, _)
MergeAll(f, S) ==
  IF S = {} THEN <<>>
  ELSE LET x == CHOOSE x \in S : TRUE IN f[x] @@ MergeAll(f, S \ {x})

GenNodes(c) ==
  ClosureNodes(c) @@ MergeAll([s \in ScopeIxs(c.shape) |-> ScopeNodes(c, s)], ScopeIxs(c.shape))

ClosureType(c, s) ==
  IF IsProc(c, s) THEN FunType([i \in 1..c.np |-> VarType(i)], FinalType(c, s))
  ELSE CodeType(FinalType(c, s))

\* the scope whose body holds node n
NodeScope(c, n) == CHOOSE s \in ScopeIxs(c.shape) : n \in DOMAIN ScopeNodes(c, s)

GenTypeTable(c) ==
  LET nodes == GenNodes(c)
      varids == Range(FreeIds(c)) \cup {OwnedEscapes(c)[j].id : j \in 1..c.no}
                \cup UNION {Range(ParamIds(c, s)) : s \in {x \in SubIxs(c.shape) : IsProc(c, x)}}
  IN [n \in DOMAIN nodes \cup varids |->
        IF n \in SubIxs(c.shape) THEN <<ClosureType(c, n), 0>>
        ELSE IF c.fault = "anytype" /\ n = BodyId(c, c.fscope) THEN <<ANY, 0>>
        ELSE IF n \in varids THEN <<VarType(n), 0>>
        ELSE IF n = LhsId(c.fscope) /\ c.fault \in OperatorFaults THEN <<c.lt, 0>>
        ELSE IF n = RhsId(c.fscope) /\ c.fault \in OperatorFaults THEN <<c.rt, 0>>
        ELSE IF c.use = "pure" /\ n \in {UseId(NodeScope(c, n), j) : j \in 1..2}
        THEN <<INT, 0>>
        ELSE IF nodes[n].tag \in {"root", "seq"} \/ n = FinalId(NodeScope(c, n))
        THEN <<FinalType(c, NodeScope(c, n)), 0>>
        ELSE IF nodes[n].tag \in {"lookup", "literal"} /\ n # LhsId(NodeScope(c, n))
        THEN <<VarType(n - 1), 0>>
        ELSE <<INT, 0>>]

\* A final lookup or assignment names the first variable of its scope, an
\* extern or a variable that is not in scope; argument i names variable i.
GenDefuse(c) ==
  LET finals == {FinalId(s) : s \in ScopeIxs(c.shape)}
      nodes == GenNodes(c)
      argids == {n \in DOMAIN nodes \ finals : nodes[n].tag = "lookup"}
  IN [n \in finals \cup argids |->
        IF n \in argids THEN 10 + ((n - 1) % 10)
        ELSE LET s == CHOOSE s \in ScopeIxs(c.shape) : FinalId(s) = n
                 f == IF c.fscope = s THEN c.fault ELSE "none"
             IN IF f \in {"extern_lookup", "extern_assign"} THEN ExternId
                ELSE IF f \in {"lookup_absent", "assign_absent"} THEN AbsentId
                ELSE IF f = "assign_free" THEN FreeIds(c)[1]
                ELSE IF Len(ScopeVars(c, s)) > 0 THEN ScopeVars(c, s)[1] ELSE n]

GenScope(c, s) ==
  [kind |-> IF IsProc(c, s) THEN "proc" ELSE "prog",
   id |-> IF s = 0 THEN NULL ELSE s,
   body |-> BodyId(c, s),
   params |-> IF s # 0 /\ IsProc(c, s) THEN ParamIds(c, s) ELSE <<>>,
   free |-> IF s = 0 THEN <<>> ELSE FreeIds(c),
   bound |-> (IF s = 0 THEN FreeIds(c) ELSE <<>>)
               \o (IF c.fault = "let" /\ c.fscope = s THEN <<FinalId(s)>> ELSE <<>>),
   persist |-> IF IsProc(c, s)
               THEN (IF (s = 0 /\ c.ppers = "main") \/ (s # 0 /\ c.ppers = "procs")
                     THEN <<[id |-> 29]>> ELSE <<>>)
               ELSE (IF c.pown THEN OwnedEscapes(c) ELSE <<>>),
   owned_persist |-> IF IsProc(c, s) THEN <<>> ELSE OwnedEscapes(c),
   children |-> ShapeChildren(c.shape)[s]]

Missing(c, s) == c.fault = "noscope" /\ c.fscope = s

GenIR(c) ==
  [procs |-> [s \in {s \in SubIxs(c.shape) : IsProc(c, s) /\ ~Missing(c, s)} |->
                GenScope(c, s)],
   progs |-> [s \in {s \in SubIxs(c.shape) : ~IsProc(c, s) /\ ~Missing(c, s)} |->
                GenScope(c, s)],
   main |-> GenScope(c, 0),
   nodes |-> GenNodes(c),
   type_table |-> GenTypeTable(c),
   defuse |-> GenDefuse(c),
   externs |-> IF c.fault \in {"extern_lookup", "extern_assign"}
               THEN (ExternId :> "ext") ELSE <<>>]

Kinds == {"proc", "prog"}

HasProc(c) == \E s \in SubIxs(c.shape) : c.kinds[s] = "proc"
HasProg(c) == \E s \in SubIxs(c.shape) : c.kinds[s] = "prog"

\* the scope graphs with the kind of each scope
Graphs ==
  {g \in [shape : Shapes, kinds : [1..3 -> Kinds]] :
     \A s \in 1..3 : s \notin SubIxs(g.shape) => g.kinds[s] = "proc"}

Defaults ==
  [np |-> 0, nf |-> 0, no |-> 0, pown |-> FALSE, rooted |-> TRUE,
   fault |-> "none", fscope |-> 0, use |-> "invoke", ppers |-> "none",
   bop |-> "+", lt |-> INT, rt |-> INT]

\* The inputs explored.  Plain: programs whose closures are called or run,
\* with every number of parameters, captured variables and owned persists.
\* Fault: a fault on one representative of each scope graph.  Operator:
\* operators in main of the program without closures.  Tuple: closures that
\* are built into a tuple and never called.  Persist: Procs with a persist
\* list.
Configs ==
  LET PlainConfigs ==
        {v @@ g @@ Defaults :
           g \in Graphs,
           v \in {v \in [np : 0..MaxParams, nf : 0..MaxFree, no : 0..MaxOwned,
                         pown : BOOLEAN, rooted : BOOLEAN] : v.pown => v.no > 0}}
      FaultConfigs ==
        UNION {{v @@ [nf |-> 1, np |-> IF HasProc(g) THEN 1 ELSE 0] @@ g @@ Defaults :
                  v \in {v \in [fault : Faults \ ({"none"} \cup OperatorFaults),
                                fscope : 0..3] :
                           /\ v.fscope \in ScopeIxs(g.shape)
                           /\ v.fault = "noscope" => v.fscope # 0
                           /\ v.fault \notin {"if", "anytype"}
                                => g.shape \in {"leaf", "chain"}}} :
               g \in Graphs}
      OperatorConfigs ==
        {v @@ [shape |-> "leaf", kinds |-> [s \in 1..3 |-> "proc"], nf |-> 1] @@ Defaults :
           v \in {v \in [fault : OperatorFaults, bop : {"+", "*", "-"},
                         lt : {INT, FLOAT, ANY, CodeType(INT)},
                         rt : {INT, FLOAT, ANY, CodeType(INT)}] :
                    v.fault = "unary" => v.rt = INT /\ v.bop \in {"-", "+"}}}
      TupleConfigs ==
        {v @@ [use |-> "tuple"] @@ g @@ Defaults :
           g \in {g \in Graphs : g.shape # "leaf"},
           v \in {v \in [nf : 0..MaxFree, no : 0..MaxOwned, pown : BOOLEAN] :
                    v.pown => v.no > 0}}
      PureConfigs ==
        {v @@ [use |-> "pure"] @@ g @@ Defaults :
           g \in {g \in Graphs : g.shape # "leaf"}, v \in [nf : 0..MaxFree]}
      PersistConfigs ==
        UNION {{v @@ g @@ Defaults :
                  v \in {v \in [ppers : {"procs", "main"}] :
                           v.ppers = "procs" => HasProc(g)}} :
               g \in Graphs}
  IN {c \in PlainConfigs \cup FaultConfigs \cup OperatorConfigs \cup TupleConfigs
              \cup PureConfigs \cup PersistConfigs :
        /\ ~HasProc(c) => c.np = 0
        /\ ~HasProg(c) => c.no = 0}

InputIRs == {GenIR(c) : c \in Configs}

\* --------------------------------------------------------------------------
\* Emitters with a specialization overlay.  The scope id target is defined in
\* any subset of the four tables variant.procs, ir.procs, variant.progs and
\* ir.progs; an overlay definition has a body of its own.
\* --------------------------------------------------------------------------
VBodyId(s) == BodyBase(s) + 95     \* body of the overlay definition of scope s

GenScopeAs(c, s, kind, overlay) ==
  [GenScope(c, s) EXCEPT
     !.kind = kind,
     !.body = IF overlay THEN VBodyId(s) ELSE @,
     !.params = IF kind = "proc" THEN ParamIds(c, s) ELSE <<>>,
     !.persist = <<>>,
     !.owned_persist = <<>>]

\* the pairs <<ir, variant>>; without an overlay variant is null.  GenTable is
\* the table of the given kind, with the target's entry as the subset says.
VariantInputs ==
  LET Tables == {"variant.procs", "ir.procs", "variant.progs", "ir.progs"}
      VariantConfigs ==
        {[nf |-> 1, np |-> IF HasProc(g) THEN 1 ELSE 0] @@ g @@ Defaults :
           g \in {g \in Graphs : g.shape \in {"chain", "siblings"}}}
      \* captures: the overriding definition has the free list of the
      \* definition it overrides; otherwise it captures nothing
      GenTable(c, target, kind, overlay, present, captures) ==
        LET own == IF overlay THEN {}
                   ELSE {s \in SubIxs(c.shape) \ {target} : c.kinds[s] = kind}
        IN [s \in own \cup (IF present THEN {target} ELSE {}) |->
              IF s = target
              THEN [GenScopeAs(c, s, kind, overlay) EXCEPT
                      !.free = IF overlay /\ ~captures THEN <<>> ELSE @]
              ELSE GenScope(c, s)]
      GenVariantIR(c, target, tabs) ==
        LET extra == Range(ParamIds(c, target)) \cup {VBodyId(target)}
        IN [GenIR(c) EXCEPT
              !.procs = GenTable(c, target, "proc", FALSE, "ir.procs" \in tabs, TRUE),
              !.progs = GenTable(c, target, "prog", FALSE, "ir.progs" \in tabs, TRUE),
              !.nodes = @ @@ (VBodyId(target) :> LiteralOf(INT)),
              !.type_table = @ @@ [n \in extra |->
                                     IF n = VBodyId(target) THEN <<INT, 0>>
                                     ELSE <<VarType(n), 0>>]]
      GenVariant(c, target, tabs, captures) ==
        [procs |-> GenTable(c, target, "proc", TRUE, "variant.procs" \in tabs, captures),
         progs |-> GenTable(c, target, "prog", TRUE, "variant.progs" \in tabs, captures)]
  IN UNION {UNION {
       {<<GenVariantIR(c, target, tabs), GenVariant(c, target, tabs, captures)>> :
          tabs \in SUBSET Tables, captures \in BOOLEAN}
         \cup {<<GenVariantIR(c, target, tabs), [tag |-> "null"]>> :
                 tabs \in SUBSET {"ir.procs", "ir.progs"}} :
       target \in SubIxs(c.shape)} : c \in VariantConfigs}

\* --------------------------------------------------------------------------
\* Programs whose main declares one more local variable, of a type drawn from
\* every kind of Type: the primitives and the other kinds, Code and Fun types
\* over them, and Code and Fun types nested once more.
\* --------------------------------------------------------------------------
TypeInputs ==
  LET Base == {INT, FLOAT, ANY, VOID, PrimitiveType("Int", 3), PrimitiveType("String", 4),
               ParameterizedType("Array"),
               InstanceType(ParameterizedType("Array"), INT)}
      Small == {INT, FLOAT, ANY, PrimitiveType("Int", 3)}
      Codes == {CodeType(t) : t \in Base}
      Funs == {FunType(ps, r) :
                 ps \in UNION {[1..n -> Small] : n \in 0..MaxParams},
                 r \in Small \cup {VOID}}
      Inner == Codes \cup {FunType(<<a>>, r) : a \in Small, r \in Small}
      Nested == {CodeType(t) : t \in Inner}
                  \cup {FunType(<<t>>, INT) : t \in Inner}
                  \cup {FunType(<<>>, t) : t \in Inner}
                  \cup {FunType(<<INT, t>>, FLOAT) : t \in Inner}
      c == [shape |-> "chain", kinds |-> [s \in 1..3 |-> IF s = 2 THEN "prog" ELSE "proc"],
            nf |-> 1, np |-> 1] @@ Defaults
      id == 97
  IN {[GenIR(c) EXCEPT !.main.bound = Append(@, id),
                       !.type_table = @ @@ (id :> <<t, 0>>)] :
        t \in Base \cup Codes \cup Funs \cup Nested}

\* --------------------------------------------------------------------------
\* LLVM values, instructions, the module and the builders
\* --------------------------------------------------------------------------
Val(k, a, b) == [k |-> k, a |-> a, b |-> b]
InstVal(f, i) == Val("inst", f, i)         \* result of instruction i of function f
ParamVal(f, i) == Val("param", f, i)       \* getParam(i) of function f (0-based i)
FuncVal(f) == Val("func", f, 0)
ConstVal(kind) == Val(kind, 0, 0)
UndefVal == Val("undef", 0, 0)             \* llvm.Value.getUndef
Undefined == Val("undefined", 0, 0)        \* the JavaScript value undefined

Instr(op, args, ty, idx, name) ==
  [op |-> op, args |-> args, ty |-> ty, idx |-> idx, name |-> name]

\* mod.getFunction(name): the index of the function, 0 when there is none.
getFunction(mod, name) ==
  IF \E f \in DOMAIN mod : mod[f].name = name
  THEN CHOOSE f \in DOMAIN mod : mod[f].name = name
  ELSE 0

\* LLVM renames a symbol whose name is taken.
UniqueName(mod, name) ==
  IF getFunction(mod, name) = 0 THEN name
  ELSE name \o "." \o ToString(Cardinality({f \in DOMAIN mod : mod[f].base = name}))

\* mod.addFunction(name, type): m.val is the new function.
addFunction(m, name, type) ==
  LET func == [name |-> UniqueName(m.mod, name), base |-> name, type |-> type,
               declared |-> FALSE, code |-> <<>>]
  IN [m EXCEPT !.mod = Append(@, func), !.val = FuncVal(Len(m.mod) + 1)]

getOrInsertFunction(m, name, type) ==
  IF getFunction(m.mod, name) # 0
  THEN [m EXCEPT !.val = FuncVal(getFunction(m.mod, name))]
  ELSE LET func == [name |-> name, base |-> name, type |-> type,
                    declared |-> TRUE, code |-> <<>>]
       IN [m EXCEPT !.mod = Append(@, func), !.val = FuncVal(Len(m.mod) + 1)]

\* llvm.Builder.create() followed by positionAtEnd(entry block of func);
\* func = 0 is a builder that was never positioned.
BuilderCreate(m, func) ==
  [m EXCEPT !.builders = Append(@, [func |-> func, freed |-> FALSE])]

\* mutant: free releases nothing
BuilderFreeSkipped(m, b) == m

BuilderFree(m, b) ==
  [m EXCEPT !.builders[b].freed = TRUE,
            !.frees = Append(@, b),
            !.misuse = @ \/ m.builders[b].freed]

\* An instruction built through builder b lands at the end of b's function.
BuildWith(m, b, op, args, ty, idx, name) ==
  LET f == m.builders[b].func
  IN IF m.builders[b].freed \/ f = 0
     THEN [m EXCEPT !.misuse = TRUE, !.val = Undefined]
     ELSE [m EXCEPT !.mod[f].code = Append(@, Instr(op, args, ty, idx, name)),
                    !.val = InstVal(f, Len(m.mod[f].code) + 1)]

Build(m, op, args, ty, idx, name) == BuildWith(m, m.builder, op, args, ty, idx, name)

\* an exception is propagating: every loop and sequence of calls stops
Pending(m) == m.err # ""

\* what has been built and released so far
Built(m) == [mod |-> m.mod, builders |-> m.builders, frees |-> m.frees]

NotThrown == [mod |-> <<>>, builders |-> <<>>, frees |-> <<>>]

\* thrown_at keeps what had been built when the first exception was thrown
Throw(m, msg) ==
  [m EXCEPT !.err = msg, !.val = Undefined,
            !.thrown_at = IF @ = NotThrown THEN Built(m) ELSE @]

NamedValues(m) == m.nvs[m.named_values]

\* emitter.named_values[id] = ptr
SetNamedValue(m, id, ptr) ==
  [m EXCEPT !.nvs[m.named_values] = (id :> ptr) @@ @]

NoType == [t |-> "none"]    \* instructions whose type the model does not track

buildLoad(m, ptr, name) == Build(m, "load", <<ptr>>, NoType, 0, name)
buildStore(m, val, ptr) == Build(m, "store", <<val, ptr>>, NoType, 0, "")
buildAlloca(m, type, name) == Build(m, "alloca", <<>>, type, 0, name)
buildBitCast(m, val, type, name) == Build(m, "bitcast", <<val>>, type, 0, name)
buildInsertValue(m, agg, val, idx, name) == Build(m, "insertvalue", <<agg, val>>, NoType, idx, name)
buildStructGEP(m, ptr, idx, name) == Build(m, "structgep", <<ptr>>, NoType, idx, name)
buildCall(m, func, args, name) == Build(m, "call", <<func>> \o args, NoType, 0, name)
buildRet(m, val) == Build(m, "ret", <<val>>, NoType, 0, "")

\* --------------------------------------------------------------------------
\* Closure ABI
\* --------------------------------------------------------------------------
get_env_type(ir, scope) ==
  LET free_types == [i \in 1..Len(scope.free) |-> llvm_type(ir.type_table[scope.free[i]][1])]
  IN IF HasTypeError(free_types) THEN TypeError ELSE StructType(free_types, TRUE)

\* the loads of pack_env's first loop, from index k on
RECURSIVE pack_env_loads(_, _, _, _)
pack_env_loads(m, free, k, free_vals) ==
  IF k > Len(free) \/ Pending(m) THEN [m |-> m, vals |-> free_vals]
  ELSE LET ptr == Get(NamedValues(m), free[k])
           \* named_values[id] is not checked: with no entry, undefined is
           \* handed to the native builder, which either builds a load of it
           \* or fails in the binding
           m1 == IF ptr = UNDEF /\ m.undefined_load = "thrown"
                 THEN Throw(m, "TypeError: undefined pointer")
                 ELSE buildLoad(m, ptr, "")
       IN pack_env_loads(m1, free, k + 1, Append(free_vals, m1.val))

\* the insertvalues of pack_env's second loop, from index k on
RECURSIVE pack_env_inserts(_, _, _, _)
pack_env_inserts(m, free_vals, k, env_struct) ==
  IF k > Len(free_vals) \/ Pending(m) THEN [m EXCEPT !.val = env_struct]
  ELSE LET m1 == buildInsertValue(m, env_struct, free_vals[k], k - 1, "")
       IN pack_env_inserts(m1, free_vals, k + 1, m1.val)

pack_env(m, ir, scope) ==
  LET l == pack_env_loads(m, scope.free, 1, <<>>)
      env_type == get_env_type(ir, scope)
  IN IF Pending(l.m) THEN l.m
     ELSE IF env_type = TypeError THEN Throw(l.m, "Unsupported type in LLVM backend")
     ELSE LET m1 == pack_env_inserts(l.m, l.vals, 1, UndefVal)
              m2 == buildAlloca(m1, env_type, "envptr")
              m3 == buildStore(m2, m1.val, m2.val)
          IN buildBitCast(m3, m2.val, ptr_t, "envptr_hidden")

\* pack_closure, lines 139-158, once the environment is packed: the closure
\* value is an undef of closure_type with the function and the environment
\* pointer inserted
pack_closure_typed(m1, func, scope, _func_type) ==
  LET closure_type == StructType(<<PointerType(FunctionType(_func_type[1], _func_type[2])),
                                   ptr_t>>, TRUE)
      m2 == Build(m1, "insertvalue", <<UndefVal, func>>, closure_type, 0, "")
  IN IF m1.err # "" THEN m1
     ELSE IF Len(scope.persist) > 0 THEN Throw(m1, "persists not implemented yet")
     ELSE IF _func_type = TypeError THEN Throw(m1, "Unsupported type in LLVM backend")
     ELSE Build(m2, "insertvalue", <<m2.val, m1.val>>, closure_type, 1, "")

\* mutant: the function type is derived as for a Prog, without parameters
pack_closure_no_params(m, ir, func, scope) ==
  pack_closure_typed(pack_env(m, ir, scope), func, scope,
                     get_func_type(ir, scope.body, <<>>))

pack_closure(m, ir, func, scope) ==
  pack_closure_typed(pack_env(m, ir, scope), func, scope,
                     IF scope.kind = "proc"
                     THEN get_func_type(ir, scope.body, scope.params)
                     ELSE get_func_type(ir, scope.body, <<>>))

\* mod.getFunction of a missing name yields no function (null).
FunctionRef(mod, name) ==
  IF getFunction(mod, name) = 0 THEN Undefined ELSE FuncVal(getFunction(mod, name))

emit_quote(m, ir, id) ==
  LET func == FunctionRef(m.mod, progsym(id))
      prog == Get(ir.progs, id)
      m1 == [m EXCEPT !.lookups = Append(@, [name |-> progsym(id), func |-> func])]
  IN IF prog = UNDEF THEN Throw(m1, "TypeError: undefined scope")
     ELSE pack_closure(m1, ir, func, prog)

emit_func(m, ir, id) ==
  LET func == FunctionRef(m.mod, procsym(id))
      proc == Get(ir.procs, id)
      m1 == [m EXCEPT !.lookups = Append(@, [name |-> procsym(id), func |-> func])]
  IN IF proc = UNDEF THEN Throw(m1, "TypeError: undefined scope")
     ELSE pack_closure(m1, ir, func, proc)

unpack_closure(m, func_type, closure) ==
  LET m1 == buildAlloca(m, func_type, "")
      func_struct_ptr == m1.val
      m2 == buildStore(m1, closure, func_struct_ptr)
      m3 == buildStructGEP(m2, func_struct_ptr, 0, "")
      m4 == buildLoad(m3, m3.val, "")
      m5 == buildStructGEP(m4, func_struct_ptr, 1, "")
      m6 == buildLoad(m5, m5.val, "")
  IN [m |-> m6, func |-> m4.val, env |-> m6.val]

\* mutant: an extern is read as a placeholder value
emit_extern_placeholder(m) == [m EXCEPT !.val = ConstVal("constint")]

emit_extern(m) == Throw(m, "not implemented")

\* mutant: the store is built without looking for the alloca first
assignment_helper_unchecked(m, val, id) ==
  [buildStore(m, val, Get(NamedValues(m), id)) EXCEPT !.val = val]

assignment_helper(m, val, id) ==
  IF Get(NamedValues(m), id) = UNDEF
  THEN Throw(m, "Unknown variable name (assign helper)")
  ELSE [buildStore(m, val, NamedValues(m)[id]) EXCEPT !.val = val]

emit_lookup(m, ir, id) ==
  LET hasdef == id \in DOMAIN ir.defuse
      defid == ir.defuse[id]
  IN IF hasdef /\ defid \in DOMAIN ir.externs THEN emit_extern(m)
     ELSE IF ~hasdef \/ Get(NamedValues(m), defid) = UNDEF
     THEN Throw(m, "Unknown variable name (lookup)")
     ELSE buildLoad(m, NamedValues(m)[defid], varsym(defid))

\* --------------------------------------------------------------------------
\* Runtime prelude
\* --------------------------------------------------------------------------
\* mutant: the environment parameter is passed on as well
pass_on_all_args(wrapper_func, dummy_args) ==
  [i \in 1..Len(dummy_args) |-> ParamVal(wrapper_func, i - 1)]

\* the wrapper's parameters but the last (lines 543-552)
pass_on_args(wrapper_func, dummy_args) ==
  [i \in 1..(Len(dummy_args) - 1) |-> ParamVal(wrapper_func, i - 1)]

\* the declarations of emit_runtime_declaration's loop, from index k on
RECURSIVE emit_runtime_declaration_from(_, _)
emit_runtime_declaration_from(m, k) ==
  IF k > Len(runtime_declarations) \/ Pending(m) THEN m
  ELSE
    LET name == runtime_declarations[k][1]
        ret_type == runtime_declarations[k][2]
        arg_types == runtime_declarations[k][3]
        dummy_args == Append(arg_types, ptr_t)
        dummy_func_type == FunctionType(ret_type, dummy_args)
        actual_func_type == FunctionType(ret_type, arg_types)
        m1 == getOrInsertFunction(m, name, actual_func_type)
        decl_func == m1.val
        m2 == addFunction(m1, name \o "_wrapper", dummy_func_type)
        wrapper_func == m2.val
        m3 == BuilderCreate(m2, wrapper_func.a)
        new_builder == Len(m3.builders)
        args == pass_on_args(wrapper_func.a, dummy_args)
        m4 == BuildWith(m3, new_builder, "call", <<decl_func>> \o args, NoType, 0, "")
        m5 == IF ret_type # void_t
              THEN BuildWith(m4, new_builder, "ret", <<m4.val>>, NoType, 0, "")
              ELSE BuildWith(m4, new_builder, "retvoid", <<>>, NoType, 0, "")
    IN emit_runtime_declaration_from(m5, k + 1)

emit_runtime_declaration(m) == emit_runtime_declaration_from(m, 1)

\* --------------------------------------------------------------------------
\* Expression compile rules
\* --------------------------------------------------------------------------
\* emitutil's usefulness predicate: does the expression have an effect?
RECURSIVE useful_pred(_, _)
useful_pred(ir, id) ==
  LET tree == ir.nodes[id]
  IN CASE tree.tag \in {"let", "assign", "run", "call", "escape", "if", "while",
                        "macrocall", "alloc"} -> TRUE
       [] tree.tag \in {"seq", "binary", "unary", "root", "tuple", "tupleind"} ->
            \E i \in DOMAIN tree.kids : useful_pred(ir, tree.kids[i])
       [] OTHER -> FALSE

RECURSIVE compile_rules(_, _, _)
RECURSIVE emit_args(_, _, _, _)

\* ast_visit(compile_rules, tree, emitter)
emit(m, ir, id) == compile_rules(m, ir, id)

\* emit_call, lines 197-198: an argument value joins llvm_args
emit_arg(m1, llvm_args) ==
  [m |-> m1, vals |-> IF m1.err # "" THEN llvm_args ELSE Append(llvm_args, m1.val)]

\* the argument loop of emit_call, from index k on
emit_args(a, ir, args, k) ==
  IF k > Len(args) \/ Pending(a.m) THEN a
  ELSE emit_args(emit_arg(emit(a.m, ir, args[k]), a.vals), ir, args, k + 1)

emit_seq_rhs(m1, ir, seq) ==
  IF m1.err # "" THEN m1 ELSE emit(m1, ir, seq.kids[2])

\* mutant: the left-hand side is emitted whether it is useful or not
emit_seq_always(m, ir, id) ==
  emit_seq_rhs(emit(m, ir, ir.nodes[id].kids[1]), ir, ir.nodes[id])

emit_seq(m, ir, id) ==
  emit_seq_rhs(IF useful_pred(ir, ir.nodes[id].kids[1])
               THEN emit(m, ir, ir.nodes[id].kids[1]) ELSE m,
               ir, ir.nodes[id])

emit_let_store(m1, id) ==
  IF m1.err # "" THEN m1 ELSE assignment_helper(m1, m1.val, id)

emit_let(m, ir, id) == emit_let_store(emit(m, ir, ir.nodes[id].kids[1]), id)

emit_assign_store(m1, ir, id) ==
  IF m1.err # "" THEN m1
  ELSE IF id \notin DOMAIN ir.defuse
  THEN Throw(m1, "Unknown variable name (assign helper)")
  ELSE assignment_helper(m1, m1.val, ir.defuse[id])

emit_assign(m, ir, id) ==
  IF id \in DOMAIN ir.defuse /\ ir.defuse[id] \in DOMAIN ir.externs
  THEN Throw(m, "not implemented yet")
  ELSE emit_assign_store(emit(m, ir, ir.nodes[id].kids[1]), ir, id)

\* mutant: the environment is passed first
emit_call_env_first(a, u) ==
  IF a.m.err # "" THEN a.m
  ELSE buildCall(a.m, u.func, <<u.env>> \o a.vals, "calltmp")

\* emit_call, lines 199-202: the environment is the last argument
emit_call_build(a, u) ==
  IF a.m.err # "" THEN a.m
  ELSE buildCall(a.m, u.func, Append(a.vals, u.env), "calltmp")

\* emit_call, lines 195-198
emit_call_args(u, ir, tree) ==
  emit_call_build(emit_args([m |-> u.m, vals |-> <<>>], ir, Tail(tree.kids), 1), u)

\* emit_call, lines 190-193: the closure is unpacked
emit_call_unpack(m1, ir, tree) ==
  IF m1.err # "" THEN m1
  ELSE IF m1.val = Undefined THEN Throw(m1, "Unknown function")
  ELSE emit_call_args(unpack_closure(m1, llvm_type(ir.type_table[tree.kids[1]][1]),
                                     m1.val),
                      ir, tree)

emit_call(m, ir, id) ==
  IF llvm_type(ir.type_table[ir.nodes[id].kids[1]][1]) = TypeError
  THEN Throw(m, "Unsupported type in LLVM backend")
  ELSE emit_call_unpack(emit(m, ir, ir.nodes[id].kids[1]), ir, ir.nodes[id])

\* emit_run, lines 207-216
emit_run_unpack(m1, func_type) ==
  LET u == unpack_closure(m1, func_type, m1.val)
  IN IF m1.err # "" THEN m1
     ELSE IF m1.val = Undefined THEN Throw(m1, "Unknown function")
     ELSE buildCall(u.m, u.func, <<u.env>>, "calltmp")

emit_run(m, ir, id) ==
  IF llvm_type(ir.type_table[ir.nodes[id].kids[1]][1]) = TypeError
  THEN Throw(m, "Unsupported type in LLVM backend")
  ELSE emit_run_unpack(emit(m, ir, ir.nodes[id].kids[1]),
                       llvm_type(ir.type_table[ir.nodes[id].kids[1]][1]))

visit_literal(m, tree) ==
  CASE tree.op = "int" -> [m EXCEPT !.val = ConstVal("constint")]
    [] tree.op = "float" -> [m EXCEPT !.val = ConstVal("constfloat")]
    [] tree.op = "string" -> [m EXCEPT !.val = ConstVal("conststring")]
    [] OTHER -> Throw(m, "Unrecognized Type")

visit_unary_op(m1, tree, type) ==
  IF m1.err # "" THEN m1
  ELSE IF type = INT THEN
    IF tree.op = "-" THEN Build(m1, "neg", <<m1.val>>, NoType, 0, "negtmp")
    ELSE Throw(m1, "Unknown unary op")
  ELSE IF type = FLOAT THEN
    IF tree.op = "-" THEN Build(m1, "negf", <<m1.val>>, NoType, 0, "negtmp")
    ELSE Throw(m1, "Unknown unary op")
  ELSE Throw(m1, "Incompatible Operand")

visit_unary(m, ir, id) ==
  visit_unary_op(emit(m, ir, ir.nodes[id].kids[1]), ir.nodes[id],
                 ir.type_table[ir.nodes[id].kids[1]][1])

\* buildSIToFP of an operand that is not a Float; m.val is the operand to use
cast_operand(m, val, type) ==
  IF type # FLOAT THEN Build(m, "sitofp", <<val>>, double_t, 0, "lCast")
  ELSE [m EXCEPT !.val = val]

\* mutant: the left operand is cast whenever the right one is
visit_binary_cast_both(m2, op, lVal, rVal, lType, rType) ==
  LET m3 == cast_operand(m2, lVal, rType)
      m4 == cast_operand(m3, rVal, rType)
  IN CASE op = "+" -> Build(m4, "addf", <<m3.val, m4.val>>, NoType, 0, "addtmp")
       [] op = "*" -> Build(m4, "mulf", <<m3.val, m4.val>>, NoType, 0, "multmp")
       [] OTHER -> Throw(m4, "Unknown bin op")

\* lines 677-697: the operands are promoted and the float operation built
visit_binary_promote(m2, op, lVal, rVal, lType, rType) ==
  LET m3 == cast_operand(m2, lVal, lType)
      m4 == cast_operand(m3, rVal, rType)
  IN CASE op = "+" -> Build(m4, "addf", <<m3.val, m4.val>>, NoType, 0, "addtmp")
       [] op = "*" -> Build(m4, "mulf", <<m3.val, m4.val>>, NoType, 0, "multmp")
       [] OTHER -> Throw(m4, "Unknown bin op")

\* lines 660-679
visit_binary_op(m2, tree, lVal, lType, rType) ==
  IF m2.err # "" THEN m2
  ELSE IF lType = INT /\ rType = INT THEN
    CASE tree.op = "+" -> Build(m2, "add", <<lVal, m2.val>>, NoType, 0, "addtmp")
      [] tree.op = "*" -> Build(m2, "mul", <<lVal, m2.val>>, NoType, 0, "multmp")
      [] OTHER -> Throw(m2, "Unknown bin op")
  ELSE IF (lType # FLOAT /\ lType # INT) \/ (rType # FLOAT /\ rType # INT)
  THEN Throw(m2, "Incompatible Operands")
  ELSE visit_binary_promote(m2, tree.op, lVal, m2.val, lType, rType)

\* line 656
visit_binary_rhs(m1, ir, tree) ==
  IF m1.err # "" THEN m1
  ELSE visit_binary_op(emit(m1, ir, tree.kids[2]), tree, m1.val,
                       ir.type_table[tree.kids[1]][1], ir.type_table[tree.kids[2]][1])

visit_binary(m, ir, id) ==
  visit_binary_rhs(emit(m, ir, ir.nodes[id].kids[1]), ir, ir.nodes[id])

visit_root(m, ir, id) ==
  emit(emit_runtime_declaration(m), ir, ir.nodes[id].kids[1])

\* the rule of compile_rules that ast_visit selects for the node
compile_rules(m, ir, id) ==
  LET tree == ir.nodes[id]
  IN CASE tree.tag \in {"alloc", "tupleind", "tuple", "typealias"} ->
            [m EXCEPT !.val = ConstVal("constint")]
       [] tree.tag = "root" -> visit_root(m, ir, id)
       [] tree.tag = "literal" -> visit_literal(m, tree)
       [] tree.tag = "seq" -> emit_seq(m, ir, id)
       [] tree.tag = "let" -> emit_let(m, ir, id)
       [] tree.tag = "assign" -> emit_assign(m, ir, id)
       [] tree.tag = "lookup" -> emit_lookup(m, ir, id)
       [] tree.tag = "unary" -> visit_unary(m, ir, id)
       [] tree.tag = "binary" -> visit_binary(m, ir, id)
       [] tree.tag = "quote" -> emit_quote(m, ir, id)
       [] tree.tag = "escape" -> Throw(m, "visit escape not implemented")
       [] tree.tag = "run" -> emit_run(m, ir, id)
       [] tree.tag = "fun" -> emit_func(m, ir, id)
       [] tree.tag = "call" -> emit_call(m, ir, id)
       [] tree.tag = "extern" -> Throw(m, "visit extern not implemented")
       [] tree.tag = "persist" -> Throw(m, "visit persist not implemented")
       [] tree.tag = "if" -> Throw(m, "visit if not implemented")
       [] tree.tag = "while" -> Throw(m, "visit while not implemented")
       [] tree.tag = "macrocall" -> Throw(m, "visit macrocall not implemented")

\* --------------------------------------------------------------------------
\* Specialization resolver
\* --------------------------------------------------------------------------
NoVariant == [tag |-> "null"]

specialized_proc(variant, ir, procid) ==
  IF variant = NoVariant THEN Get(ir.procs, procid)
  ELSE IF Get(variant.procs, procid) # UNDEF THEN variant.procs[procid]
  ELSE Get(ir.procs, procid)

specialized_prog(variant, ir, progid) ==
  IF variant = NoVariant THEN Get(ir.progs, progid)
  ELSE IF Get(variant.progs, progid) # UNDEF THEN variant.progs[progid]
  ELSE Get(ir.progs, progid)

\* --------------------------------------------------------------------------
\* State
\* --------------------------------------------------------------------------
VARIABLES
  ir,            \* emitter.ir: the CompilerIR being compiled
  variant,       \* emitter.variant
  mod,           \* emitter.mod: the functions of the module, in order of addition
  builders,      \* heap of llvm.Builder objects: positioned function, freed flag
  builder,       \* emitter.builder: reference into builders
  nvs,           \* heap of named_values arrays
  named_values,  \* emitter.named_values: reference into nvs
  frees,         \* history: the builders freed, in order
  misuse,        \* history: a builder was used after free, freed twice or unpositioned
  late,          \* history: something was emitted while an exception was propagating
  lookups,       \* history: the getFunction lookups of emit_quote / emit_func
  stack,         \* the activations of emit_proc / emit_prog (host call stack)
  status,        \* "start", "running", "returned" (module returned) or "thrown"
  error          \* the exception that left codegen, with the activations it unwound

vars == <<ir, variant, mod, builders, builder, nvs, named_values, frees, misuse, late,
          lookups, stack, status, error>>

NoError == [msg |-> "", frames |-> <<>>]

\* The emitter and the LLVM heaps as one value, threaded through the emit
\* functions; err is the pending exception, val the value returned.
Machine ==
  [mod |-> mod, builders |-> builders, builder |-> builder, nvs |-> nvs,
   named_values |-> named_values, frees |-> frees, misuse |-> misuse,
   thrown_at |-> NotThrown,
   \* what the native builder does with an undefined pointer: fixed by the build
   undefined_load |-> IF "undefined_load" \in DOMAIN ir THEN ir.undefined_load ELSE "built",
   lookups |-> lookups, err |-> "", val |-> Undefined]

Commit(m) ==
  /\ mod' = m.mod
  /\ builders' = m.builders
  /\ builder' = m.builder
  /\ nvs' = m.nvs
  /\ named_values' = m.named_values
  /\ frees' = m.frees
  /\ misuse' = m.misuse
  /\ late' = (late \/ (m.err # "" /\ Built(m) # m.thrown_at))
  /\ lookups' = m.lookups

\* mutant: the caller of the failing scope catches the exception and goes on
RaiseCaught(msg) ==
  /\ status' = "running"
  /\ error' = [msg |-> msg, frames |-> stack]
  /\ stack' = SubSeq(stack, 1, Len(stack) - 1)

\* An exception propagates out of codegen: nothing in the backend catches it.
Raise(msg) ==
  /\ status' = "thrown"
  /\ error' = [msg |-> msg, frames |-> stack]
  /\ stack' = <<>>

Init ==
  /\ ir \in InputIRs
  /\ variant = NoVariant
  /\ mod = <<>>
  /\ builders = <<[func |-> 0, freed |-> FALSE]>>
  /\ builder = 1
  /\ nvs = << <<>> >>
  /\ named_values = 1
  /\ frees = <<>>
  /\ misuse = FALSE
  /\ late = FALSE
  /\ lookups = <<>>
  /\ stack = <<>>
  /\ status = "start"
  /\ error = NoError

\* --------------------------------------------------------------------------
\* Scope compiler
\* --------------------------------------------------------------------------
Frame(scope, name, arg_ids, free_ids) ==
  [scope |-> scope, name |-> name, arg_ids |-> arg_ids, free_ids |-> free_ids,
   i |-> 1, pc |-> "subscopes", func |-> 0, func_type |-> <<>>,
   old_builder |-> 0, old_named_values |-> 0,
   \* history: the length of the function's code when the body began
   body_start |-> 0,
   \* history: the objects installed in the emitter when the call began
   entry_builder |-> builder, entry_named_values |-> named_values]

\* mutant: no local variable is reported
_bound_vars_none(scope) == <<>>

_bound_vars(scope) == [k \in 1..Len(scope.bound) |-> scope.bound[k]]

\* mutant: the symbol is derived from the definition that was materialized
emit_proc_by_body(proc) ==
  IF Len(proc.persist) > 0 THEN [err |-> "Persist not implemented yet"]
  ELSE [err |-> "",
        frame |-> Frame(proc,
                        IF proc.id = NULL THEN "main" ELSE procsym(proc.body),
                        [k \in 1..Len(proc.params) |-> proc.params[k]],
                        [k \in 1..Len(proc.free) |-> proc.free[k]])]

\* emit_proc up to its call of _emit_scope_func
emit_proc(proc) ==
  IF Len(proc.persist) > 0 THEN [err |-> "Persist not implemented yet"]
  ELSE [err |-> "",
        frame |-> Frame(proc,
                        IF proc.id = NULL THEN "main" ELSE procsym(proc.id),
                        [k \in 1..Len(proc.params) |-> proc.params[k]],
                        [k \in 1..Len(proc.free) |-> proc.free[k]])]

\* emit_prog up to its call of _emit_scope_func
\* mutant: a Prog is emitted under the Proc symbol
emit_prog_as_proc(prog) ==
  [err |-> "",
   frame |-> Frame(prog, procsym(prog.id), <<>>,
                   [k \in 1..Len(prog.owned_persist) |-> prog.owned_persist[k].id]
                     \o [k \in 1..Len(prog.free) |-> prog.free[k]])]

emit_prog(prog) ==
  [err |-> "",
   frame |-> Frame(prog, progsym(prog.id), <<>>,
                   [k \in 1..Len(prog.owned_persist) |-> prog.owned_persist[k].id]
                     \o [k \in 1..Len(prog.free) |-> prog.free[k]])]

\* mutant: a Prog is tried before a Proc
emit_scope_prog_first(scope) ==
  LET proc == specialized_proc(variant, ir, scope)
      prog == specialized_prog(variant, ir, scope)
  IN IF prog # UNDEF THEN emit_prog(prog)
     ELSE IF proc # UNDEF THEN emit_proc(proc)
     ELSE [err |-> "scope id not found"]

emit_scope(scope) ==
  LET proc == specialized_proc(variant, ir, scope)
      prog == specialized_prog(variant, ir, scope)
  IN IF proc # UNDEF THEN emit_proc(proc)
     ELSE IF prog # UNDEF THEN emit_prog(prog)
     ELSE [err |-> "scope id not found"]

Top == stack[Len(stack)]

\* _emit_subscopes' loop has run to its end (mutant: the loop is skipped).
SubscopesSkipped(f) == TRUE

SubscopesDone(f) == f.i > Len(f.scope.children)

SetTop(f) == [stack EXCEPT ![Len(stack)] = f]

\* codegen calls emit_main, which calls emit_proc on ir.main.
EmitMain ==
  /\ status = "start"
  /\ LET r == emit_proc(ir.main)
     IN IF r.err # "" THEN Raise(r.err)
        ELSE /\ stack' = <<r.frame>>
             /\ status' = "running"
             /\ error' = error
  /\ UNCHANGED <<ir, variant, mod, builders, builder, nvs, named_values, frees,
                 misuse, late, lookups>>

\* One iteration of _emit_subscopes: emit_scope on the next child.
EmitSubscope ==
  /\ status = "running" /\ stack # <<>>
  /\ Top.pc = "subscopes" /\ ~SubscopesDone(Top)
  /\ LET r == emit_scope(Top.scope.children[Top.i])
     IN IF r.err # "" THEN Raise(r.err)
        ELSE /\ stack' = Append(SetTop([Top EXCEPT !.i = @ + 1]), r.frame)
             /\ UNCHANGED <<status, error>>
  /\ UNCHANGED <<ir, variant, mod, builders, builder, nvs, named_values, frees,
                 misuse, late, lookups>>

\* emit_fun, lines 238-254: the function is added to the module, a builder is
\* created for it, and the emitter's builder and named_values are swapped.
EmitFunEnter ==
  /\ status = "running" /\ stack # <<>>
  /\ Top.pc = "subscopes" /\ SubscopesDone(Top)
  /\ LET _func_type == get_func_type(ir, Top.scope.body, Top.arg_ids)
     IN IF _func_type = TypeError
        THEN /\ Raise("Unsupported type in LLVM backend")
             /\ UNCHANGED <<mod, builders, builder, nvs, named_values, frees,
                            misuse, late, lookups>>
        ELSE LET m1 == addFunction(Machine, Top.name,
                                   FunctionType(_func_type[1], _func_type[2]))
                 func == m1.val.a
                 m2 == BuilderCreate(m1, func)
                 m3 == [m2 EXCEPT !.builder = Len(m2.builders),
                                  !.nvs = Append(@, <<>>),
                                  !.named_values = Len(m2.nvs) + 1]
             IN /\ Commit(m3)
                /\ stack' = SetTop([Top EXCEPT !.pc = "prologue",
                                               !.func = func,
                                               !.func_type = _func_type,
                                               !.old_builder = builder,
                                               !.old_named_values = named_values])
                /\ UNCHANGED <<status, error>>
  /\ UNCHANGED <<ir, variant>>

\* emit_fun's loop over arg_ids (lines 257-266), from index k on (1-based)
RECURSIVE emit_fun_args(_, _, _, _, _)
emit_fun_args(m, func, arg_ids, arg_types, k) ==
  IF k > Len(arg_ids) \/ Pending(m) THEN m
  ELSE LET id == arg_ids[k]
           m1 == buildAlloca(m, arg_types[k], varsym(id))
           ptr == m1.val
           m2 == buildStore(m1, ParamVal(func, k - 1), ptr)
       IN emit_fun_args(SetNamedValue(m2, id, ptr), func, arg_ids, arg_types, k + 1)

\* field index of the k-th (1-based) free id in the environment struct
\* (mutant: off by one)
env_field_index_shifted(k) == k

env_field_index(k) == k - 1

\* emit_fun's loop over free_ids (lines 281-296), from index k on (1-based)
RECURSIVE emit_fun_free(_, _, _, _, _)

\* mutant: a free variable is accessed in place, in the environment
emit_fun_free_shared(m, env_ptr, free_ids, free_types, k) ==
  IF k > Len(free_ids) \/ Pending(m) THEN m
  ELSE LET m2 == buildStructGEP(m, env_ptr, env_field_index(k), varsym(free_ids[k]))
       IN emit_fun_free(SetNamedValue(m2, free_ids[k], m2.val), env_ptr, free_ids,
                        free_types, k + 1)

emit_fun_free(m, env_ptr, free_ids, free_types, k) ==
  IF k > Len(free_ids) \/ Pending(m) THEN m
  ELSE LET id == free_ids[k]
           m1 == buildAlloca(m, free_types[k], varsym(id))
           ptr == m1.val
           m2 == buildStructGEP(m1, env_ptr, env_field_index(k), "")
           m3 == buildLoad(m2, m2.val, "")
           m4 == buildStore(m3, m3.val, ptr)
       IN emit_fun_free(SetNamedValue(m4, id, ptr), env_ptr, free_ids, free_types, k + 1)

\* emit_fun's loop over local_ids (lines 299-306), from index k on (1-based)
RECURSIVE emit_fun_locals(_, _, _, _)
emit_fun_locals(m, type_table, local_ids, k) ==
  IF k > Len(local_ids) \/ Pending(m) THEN m
  ELSE LET id == local_ids[k]
           type == llvm_type(type_table[id][1])
           m1 == buildAlloca(m, type, varsym(id))
       IN IF type = TypeError THEN Throw(m, "Unsupported type in LLVM backend")
          ELSE emit_fun_locals(SetNamedValue(m1, id, m1.val), type_table, local_ids, k + 1)

\* emit_fun, lines 256-306
emit_fun_prologue(m, f) ==
  LET m1 == emit_fun_args(m, f.func, f.arg_ids, f.func_type[2], 1)
      free_types == [k \in 1..Len(f.free_ids) |-> llvm_type(ir.type_table[f.free_ids[k]][1])]
      env_ptr_type == PointerType(StructType(free_types, TRUE))
      env_ptr_uncasted == ParamVal(f.func, Len(f.arg_ids))
      m2 == buildBitCast(m1, env_ptr_uncasted, env_ptr_type, "")
      m3 == emit_fun_free(m2, m2.val, f.free_ids, free_types, 1)
  IN IF HasTypeError(free_types) THEN Throw(m1, "Unsupported type in LLVM backend")
     ELSE emit_fun_locals(m3, ir.type_table, _bound_vars(f.scope), 1)

EmitFunPrologue ==
  /\ status = "running" /\ stack # <<>>
  /\ Top.pc = "prologue"
  /\ LET m == emit_fun_prologue(Machine, Top)
     IN /\ Commit(m)
        /\ IF m.err # "" THEN Raise(m.err)
           ELSE /\ stack' = SetTop([Top EXCEPT !.pc = "body",
                                               !.body_start = Len(m.mod[Top.func].code)])
                /\ UNCHANGED <<status, error>>
  /\ UNCHANGED <<ir, variant>>

\* emit_fun, lines 308-310: the body is compiled and returned.
EmitFunBody ==
  /\ status = "running" /\ stack # <<>>
  /\ Top.pc = "body"
  /\ LET m == emit(Machine, ir, Top.scope.body)
     IN IF m.err # "" THEN Commit(m) /\ Raise(m.err)
        ELSE /\ Commit(buildRet(m, m.val))
             /\ stack' = SetTop([Top EXCEPT !.pc = "exit"])
             /\ UNCHANGED <<status, error>>
  /\ UNCHANGED <<ir, variant>>

\* emit_fun, lines 312-317: the builder is freed, the saved builder and
\* named_values are reinstalled, the function is returned.
emit_fun_exit_keeps_map(m, old_builder, old_named_values) ==
  [BuilderFree(m, m.builder) EXCEPT !.builder = old_builder]

\* mutant: the saved builder is not reinstalled
emit_fun_exit_keeps_builder(m, old_builder, old_named_values) ==
  [BuilderFree(m, m.builder) EXCEPT !.named_values = old_named_values]

emit_fun_exit(m, old_builder, old_named_values) ==
  [BuilderFree(m, m.builder) EXCEPT !.builder = old_builder,
                                    !.named_values = old_named_values]

EmitFunExit ==
  /\ status = "running" /\ stack # <<>>
  /\ Top.pc = "exit"
  /\ Commit(emit_fun_exit(Machine, Top.old_builder, Top.old_named_values))
  /\ stack' = SubSeq(stack, 1, Len(stack) - 1)
  /\ UNCHANGED <<ir, variant, status, error>>

\* codegen, lines 773-776: emit_main returned; the builder is freed and the
\* module returned.
CodegenReturn ==
  /\ status = "running" /\ stack = <<>>
  /\ Commit(BuilderFree(Machine, builder))
  /\ status' = "returned"
  /\ UNCHANGED <<ir, variant, stack, error>>

Next ==
  \/ EmitMain
  \/ EmitSubscope
  \/ EmitFunEnter
  \/ EmitFunPrologue
  \/ EmitFunBody
  \/ EmitFunExit
  \/ CodegenReturn

Spec == Init /\ [][Next]_vars

\* An emitter built by a caller of the exported resolver, with a variant.
InitVariant ==
  /\ \E input \in VariantInputs : ir = input[1] /\ variant = input[2]
  /\ mod = <<>>
  /\ builders = <<[func |-> 0, freed |-> FALSE]>>
  /\ builder = 1
  /\ nvs = << <<>> >>
  /\ named_values = 1
  /\ frees = <<>>
  /\ misuse = FALSE
  /\ late = FALSE
  /\ lookups = <<>>
  /\ stack = <<>>
  /\ status = "start"
  /\ error = NoError

SpecVariant == InitVariant /\ [][Next]_vars

\* Programs in which a scope with children captures nothing, while its
\* children capture the variables of main: the closure of a child is packed
\* where its free variables have no slot. undefined_load is the outcome of
\* handing undefined to the native builder.
FreeInputs ==
  LET Emptied(scopes) ==
        [s \in DOMAIN scopes |->
           IF scopes[s].children # <<>> THEN [scopes[s] EXCEPT !.free = <<>>]
           ELSE scopes[s]]
      Finals(c) ==
        [n \in {FinalId(s) : s \in SubIxs(c.shape)} |-> Node("literal", <<>>, "int")]
  IN {[procs |-> Emptied(GenIR(c).procs), progs |-> Emptied(GenIR(c).progs),
       main |-> GenIR(c).main, nodes |-> Finals(c) @@ GenIR(c).nodes,
       type_table |-> GenIR(c).type_table, defuse |-> GenIR(c).defuse,
       externs |-> GenIR(c).externs, undefined_load |-> o] :
        c \in {v @@ g @@ Defaults :
                 g \in {g \in Graphs : g.shape \in {"chain", "diamond"}},
                 v \in [nf : 1..MaxFree]},
        o \in {"built", "thrown"}}

InitFree ==
  /\ ir \in FreeInputs
  /\ variant = NoVariant
  /\ mod = <<>>
  /\ builders = <<[func |-> 0, freed |-> FALSE]>>
  /\ builder = 1
  /\ nvs = << <<>> >>
  /\ named_values = 1
  /\ frees = <<>>
  /\ misuse = FALSE
  /\ late = FALSE
  /\ lookups = <<>>
  /\ stack = <<>>
  /\ status = "start"
  /\ error = NoError

SpecFree == InitFree /\ [][Next]_vars

\* codegen on the programs of TypeInputs
InitTypes ==
  /\ ir \in TypeInputs
  /\ variant = NoVariant
  /\ mod = <<>>
  /\ builders = <<[func |-> 0, freed |-> FALSE]>>
  /\ builder = 1
  /\ nvs = << <<>> >>
  /\ named_values = 1
  /\ frees = <<>>
  /\ misuse = FALSE
  /\ late = FALSE
  /\ lookups = <<>>
  /\ stack = <<>>
  /\ status = "start"
  /\ error = NoError

SpecTypes == InitTypes /\ [][Next]_vars

\* ==========================================================================
\* Properties
\* ==========================================================================
Last(seq) == seq[Len(seq)]

\* the symbol under which scope id is emitted and looked up
ScopeSym(id) == IF id \in DOMAIN ir.procs THEN procsym(id) ELSE progsym(id)

ScopeOf(id) == IF id \in DOMAIN ir.procs THEN ir.procs[id] ELSE ir.progs[id]

\* the scope ids reachable from main through the children lists
RECURSIVE ReachFrom(_, _)
ReachFrom(frontier, seen) ==
  IF frontier = {} THEN seen
  ELSE LET next == UNION {Range(ScopeOf(id).children) : id \in frontier}
       IN ReachFrom(next \ (seen \cup frontier), seen \cup frontier)

Reachable == ReachFrom(Range(ir.main.children), {})

\* the functions added to the module under a symbol (LLVM may have renamed them)
EmittedAs(name) == {f \in DOMAIN mod : mod[f].base = name /\ ~mod[f].declared}

Complete(f) == mod[f].code # <<>> /\ Last(mod[f].code).op \in {"ret", "retvoid"}

\* C1: whenever the emission of a scope (main, a Proc or a Prog, nested or
\* not) returns normally, emitter.builder and emitter.named_values are the
\* very objects that were installed when emit_proc / emit_prog was called.
C1_ScopeRestoresEmitter ==
  [][(status = "running" /\ stack # <<>> /\ status' = "running"
        /\ Len(stack') = Len(stack) - 1)
      => (builder' = Top.entry_builder /\ named_values' = Top.entry_named_values)]_vars

\* a nested child scope and then its parent have returned
C1_Witness ==
  /\ status = "running" /\ Len(stack) = 1 /\ Len(frees) >= 2
  /\ Len(ir.main.children) = 1
  /\ builder = Top.entry_builder /\ named_values = Top.entry_named_values

\* C2 (as claimed): when an error leaves emit_fun from the prologue or the
\* body, the scope-local builder has been freed and emitter.builder and
\* emitter.named_values are the objects saved on entry.
C2_RestoredOnFailure ==
  (status = "thrown" /\ error.frames # <<>> /\ Last(error.frames).pc = "body")
    => /\ builder = Last(error.frames).old_builder
       /\ named_values = Last(error.frames).old_named_values
       /\ \A b \in DOMAIN builders :
            builders[b].func = Last(error.frames).func => builders[b].freed

\* C3: while a scope's own function exists (its prologue, body or exit is
\* running), every child scope has a complete function in the module, and
\* no getFunction lookup of emit_quote / emit_func has missed.
C3_ChildrenBeforeBody ==
  /\ \A k \in DOMAIN stack :
       stack[k].pc # "subscopes" =>
         \A j \in DOMAIN stack[k].scope.children :
           LET fs == EmittedAs(ScopeSym(stack[k].scope.children[j]))
           IN fs # {} /\ \A f \in fs : Complete(f)
  /\ \A k \in DOMAIN lookups : lookups[k].func # Undefined

\* a body with a fun / quote node of a child has been emitted
C3_Witness ==
  /\ stack # <<>> /\ Top.pc = "exit" /\ Top.scope.children # <<>>
  /\ \E k \in DOMAIN lookups : lookups[k].name = ScopeSym(Top.scope.children[1])

\* C4: a module returned by codegen has a function named main and, for every
\* scope id reachable from main, a function named procN / progN.
C4_ReachableEmitted ==
  status = "returned" =>
    /\ \E f \in DOMAIN mod : mod[f].name = "main" /\ ~mod[f].declared
    /\ \A id \in Reachable :
         \E f \in DOMAIN mod :
           /\ ~mod[f].declared
           /\ mod[f].name = (IF id \in DOMAIN ir.procs THEN procsym(id) ELSE progsym(id))

\* a returned module of a program with a scope two levels below main
C4_Witness ==
  status = "returned" /\ \E id \in Reachable : id \notin Range(ir.main.children)

\* C5 (as claimed): in a returned module every reachable scope id has
\* exactly one function, also when a scope is the child of two scopes.
C5_EmittedExactlyOnce ==
  status = "returned" =>
    \A id \in Reachable : Cardinality(EmittedAs(ScopeSym(id))) = 1

\* C6: a function emitted for a Proc with N parameters has N + 1 parameters,
\* one emitted for a Prog has 1, and the last parameter is the i8* environment.
C6_Arity ==
  \A f \in DOMAIN mod :
    /\ mod[f].base = "main" =>
         /\ Len(mod[f].type.args) = Len(ir.main.params) + 1
         /\ Last(mod[f].type.args) = ptr_t
    /\ \A id \in DOMAIN ir.procs :
         mod[f].base = procsym(id) =>
           /\ Len(mod[f].type.args) = Len(ir.procs[id].params) + 1
           /\ Last(mod[f].type.args) = ptr_t
    /\ \A id \in DOMAIN ir.progs :
         mod[f].base = progsym(id) => mod[f].type.args = <<ptr_t>>

\* a Proc without parameters or captures, a Proc with parameters and a Prog
\* have been emitted
C6_Witness ==
  /\ \E id \in DOMAIN ir.procs :
       /\ ir.procs[id].params = <<>> /\ ir.procs[id].free = <<>>
       /\ EmittedAs(procsym(id)) # {}
  /\ \E id \in DOMAIN ir.progs : EmittedAs(progsym(id)) # {}

\* C7 (as claimed): every returned module holds, for each runtime name, the
\* bare declaration and exactly one wrapper.
C7_PreludeAlways ==
  status = "returned" =>
    \A k \in DOMAIN runtime_declarations :
      /\ \E f \in DOMAIN mod :
           mod[f].name = runtime_declarations[k][1] /\ mod[f].declared
      /\ Cardinality({f \in DOMAIN mod :
                        mod[f].base = runtime_declarations[k][1] \o "_wrapper"}) = 1

\* C8: each wrapper has the declared return type and the declared parameters
\* followed by i8*, calls the real function with exactly its leading
\* parameters in order, and returns the call's value, or void for a void
\* function.
C8_WrapperForwards ==
  \A k \in DOMAIN runtime_declarations :
    \A f \in DOMAIN mod :
      mod[f].base = runtime_declarations[k][1] \o "_wrapper" =>
        LET ret == runtime_declarations[k][2]
            args == runtime_declarations[k][3]
            real == getFunction(mod, runtime_declarations[k][1])
            code == mod[f].code
        IN /\ mod[f].type = FunctionType(ret, Append(args, ptr_t))
           /\ real # 0 /\ mod[real].type = FunctionType(ret, args)
           /\ Len(code) = 2
           /\ code[1].op = "call"
           /\ code[1].args = <<FuncVal(real)>> \o [i \in 1..Len(args) |-> ParamVal(f, i - 1)]
           /\ IF ret = void_t THEN code[2].op = "retvoid" /\ code[2].args = <<>>
              ELSE code[2].op = "ret" /\ code[2].args = <<InstVal(f, 1)>>

\* the prelude has been emitted: a void wrapper without arguments and a
\* value-returning wrapper with three exist
C8_Witness ==
  /\ getFunction(mod, "detect_error_wrapper") # 0
  /\ getFunction(mod, "gl_buffer_wrapper") # 0

\* --------------------------------------------------------------------------
\* Reading the closure ABI off the emitted code
\* --------------------------------------------------------------------------
\* The places <<f, i>> where a closure was packed: instruction i of function
\* f is pack_env's alloca of the environment struct, and the closure struct
\* was built from the function and the environment pointer after it.
PackSites ==
  {site \in UNION {{<<f, i>> : i \in DOMAIN mod[f].code} : f \in DOMAIN mod} :
     LET code == mod[site[1]].code
         i == site[2]
     IN /\ code[i].op = "alloca" /\ code[i].name = "envptr"
        /\ i + 4 <= Len(code)
        /\ code[i + 3].op = "insertvalue" /\ code[i + 3].idx = 0
        /\ code[i + 3].args[1] = UndefVal}

\* the function the closure packed at a site points to (0: the lookup missed)
SiteCallee(site) ==
  LET func == mod[site[1]].code[site[2] + 3].args[2]
  IN IF func.k = "func" THEN func.a ELSE 0

\* some named_values array holds ptr under id
Named(id, ptr) == \E n \in DOMAIN nvs : id \in DOMAIN nvs[n] /\ nvs[n][id] = ptr

FieldTypes(ids) == [k \in 1..Len(ids) |-> llvm_type(ir.type_table[ids[k]][1])]

\* The environment packed at the site is a packed struct with one field per
\* id of ids, in order: field k was loaded from the packing function's own
\* alloca for ids[k], and the struct was stored to the environment alloca
\* whose address is the closure's environment pointer.
PackMatches(site, ids) ==
  LET f == site[1]
      i == site[2]
      code == mod[f].code
      n == Len(ids)
  IN /\ code[i].ty = StructType(FieldTypes(ids), TRUE)
     /\ i > 2 * n
     /\ \A k \in 1..n :
          LET ins == code[i - n + k - 1]
              ld == code[i - 2 * n + k - 1]
              ptr == ld.args[1]
          IN /\ ins.op = "insertvalue" /\ ins.idx = k - 1
             /\ ins.args[1] = (IF k = 1 THEN UndefVal ELSE InstVal(f, i - n + k - 2))
             /\ ins.args[2] = InstVal(f, i - 2 * n + k - 1)
             /\ ld.op = "load"
             /\ ptr.k = "inst" /\ ptr.a = f
             /\ code[ptr.b].op = "alloca" /\ code[ptr.b].name = varsym(ids[k])
             /\ code[ptr.b].ty = FieldTypes(ids)[k]
             /\ Named(ids[k], ptr)
     /\ code[i + 1].op = "store"
     /\ code[i + 1].args = <<IF n = 0 THEN UndefVal ELSE InstVal(f, i - 1), InstVal(f, i)>>
     /\ code[i + 2].op = "bitcast" /\ code[i + 2].args = <<InstVal(f, i)>>
     /\ code[i + 4].op = "insertvalue" /\ code[i + 4].idx = 1
     /\ code[i + 4].args = <<InstVal(f, i + 3), InstVal(f, i + 2)>>

\* the bitcast of the environment parameter in the prologue of function g
EnvCast(g) ==
  LET casts == {j \in DOMAIN mod[g].code :
                  /\ mod[g].code[j].op = "bitcast"
                  /\ mod[g].code[j].args = <<ParamVal(g, Len(mod[g].type.args) - 1)>>}
  IN IF casts = {} THEN 0 ELSE CHOOSE j \in casts : \A j2 \in casts : j <= j2

\* Function g reads its environment parameter as a packed struct with one
\* field per id of ids, in order: field k is loaded and stored into g's own
\* alloca, which named_values holds under ids[k].
UnpackMatches(g, ids) ==
  LET code == mod[g].code
      c == EnvCast(g)
      n == Len(ids)
  IN /\ c # 0
     /\ code[c].ty = PointerType(StructType(FieldTypes(ids), TRUE))
     /\ Cardinality({j \in DOMAIN code :
                       code[j].op = "structgep" /\ code[j].args = <<InstVal(g, c)>>}) = n
     /\ \A k \in 1..n :
          \E j \in DOMAIN code :
            /\ j > 1 /\ j + 2 <= Len(code)
            /\ code[j].op = "structgep" /\ code[j].args = <<InstVal(g, c)>>
            /\ code[j].idx = k - 1
            /\ code[j + 1].op = "load" /\ code[j + 1].args = <<InstVal(g, j)>>
            /\ code[j + 2].op = "store"
            /\ code[j + 2].args = <<InstVal(g, j + 1), InstVal(g, j - 1)>>
            /\ code[j - 1].op = "alloca" /\ code[j - 1].name = varsym(ids[k])
            /\ code[j - 1].ty = FieldTypes(ids)[k]
            /\ Named(ids[k], InstVal(g, j - 1))

ProgEnvIds(prog) ==
  [k \in 1..Len(prog.owned_persist) |-> prog.owned_persist[k].id] \o prog.free

\* C9 (as claimed): the environment packed at a quote site of a Prog has one
\* field per id of owned_persist ++ free, in that order, and the Prog's
\* function reads the same fields in the same order.
C9_ProgEnvAgrees ==
  \A site \in PackSites :
    \A id \in DOMAIN ir.progs :
      (SiteCallee(site) # 0 /\ mod[SiteCallee(site)].base = progsym(id)) =>
        /\ PackMatches(site, ProgEnvIds(ir.progs[id]))
        /\ UnpackMatches(SiteCallee(site), ProgEnvIds(ir.progs[id]))

\* C10: with no active variant, the environment packed at a fun site of a
\* Proc and the environment its function unpacks agree field by field with
\* the Proc's free list: same count, same types, same ids in the same order.
C10_ProcEnvAgrees ==
  variant = NoVariant =>
    \A site \in PackSites :
      \A id \in DOMAIN ir.procs :
        (SiteCallee(site) # 0 /\ mod[SiteCallee(site)].base = procsym(id)) =>
          /\ PackMatches(site, ir.procs[id].free)
          /\ UnpackMatches(SiteCallee(site), ir.procs[id].free)

\* a closure over a Proc with two captured variables of different types
\* has been packed
C10_Witness ==
  \E site \in PackSites :
    \E id \in DOMAIN ir.procs :
      /\ SiteCallee(site) # 0 /\ mod[SiteCallee(site)].base = procsym(id)
      /\ Len(ir.procs[id].free) >= 2
      /\ FieldTypes(ir.procs[id].free)[1] # FieldTypes(ir.procs[id].free)[2]

\* C11 (as claimed): no module is returned that holds a function emitted for
\* a Proc or a Prog whose persist list is not empty.
C11_PersistAborts ==
  status = "returned" =>
    /\ ir.main.persist = <<>>
    /\ \A id \in DOMAIN ir.procs :
         EmittedAs(procsym(id)) # {} => ir.procs[id].persist = <<>>
    /\ \A id \in DOMAIN ir.progs :
         EmittedAs(progsym(id)) # {} => ir.progs[id].persist = <<>>

\* the part of C11 that the code keeps: a Proc with a persist list is never
\* emitted, in any state
C11_ProcPersistAborts ==
  /\ (mod # <<>> => ir.main.persist = <<>>)
  /\ \A id \in DOMAIN ir.procs :
       EmittedAs(procsym(id)) # {} => ir.procs[id].persist = <<>>

\* --------------------------------------------------------------------------
\* Scope resolution under an overlay
\* --------------------------------------------------------------------------
Active == variant # NoVariant

\* the first definition of id in the order variant.procs, ir.procs,
\* variant.progs, ir.progs
FirstDefined(id) ==
  IF Active /\ id \in DOMAIN variant.procs THEN variant.procs[id]
  ELSE IF id \in DOMAIN ir.procs THEN ir.procs[id]
  ELSE IF Active /\ id \in DOMAIN variant.progs THEN variant.progs[id]
  ELSE IF id \in DOMAIN ir.progs THEN ir.progs[id]
  ELSE UNDEF

\* the scope id that emit_scope was called with for the k-th activation
CalledWith(k) == stack[k - 1].scope.children[stack[k - 1].i - 1]

\* C12: the definition emit_scope(id) materializes is the first one defined
\* in the order variant.procs[id], ir.procs[id], variant.progs[id],
\* ir.progs[id] (the variant tables only when a variant is active); when none
\* is defined it throws "scope id not found" and there is no function for id.
C12_ResolutionOrder ==
  /\ \A k \in 2..Len(stack) :
       /\ FirstDefined(CalledWith(k)) # UNDEF
       /\ stack[k].scope = FirstDefined(CalledWith(k))
  /\ (status = "thrown" /\ error.msg = "scope id not found") =>
       LET parent == Last(error.frames)
           id == parent.scope.children[parent.i]
       IN /\ FirstDefined(id) = UNDEF
          /\ \A f \in DOMAIN mod : mod[f].base \notin {procsym(id), progsym(id)}
  /\ \A k \in DOMAIN stack :
       (stack[k].pc # "subscopes") =>
         \A j \in DOMAIN stack[k].scope.children :
           FirstDefined(stack[k].scope.children[j]) # UNDEF

\* the base Proc is being emitted for an id that the overlay defines as a Prog
C12_Witness ==
  /\ Len(stack) >= 2 /\ Active
  /\ CalledWith(Len(stack)) \in DOMAIN variant.progs
  /\ CalledWith(Len(stack)) \in DOMAIN ir.progs
  /\ CalledWith(Len(stack)) \notin DOMAIN variant.procs
  /\ CalledWith(Len(stack)) \in DOMAIN ir.procs
  /\ Top.scope = ir.procs[CalledWith(Len(stack))]
  /\ Top.pc = "exit"

\* the scope id was in none of the four tables of an active variant and IR
C12_WitnessUnknown ==
  status = "thrown" /\ error.msg = "scope id not found" /\ Active /\ mod # <<>>

\* C13: the function emitted by emit_scope(N) is named procN when N resolves
\* to a Proc and progN when it resolves to a Prog, from the overlay or from
\* the base IR alike, and a fun / quote node N of the matching kind looks up
\* that same name and finds the function.
C13_VariantKeepsNames ==
  /\ \A k \in 2..Len(stack) :
       /\ stack[k].name = (IF stack[k].scope.kind = "proc"
                           THEN procsym(CalledWith(k)) ELSE progsym(CalledWith(k)))
       /\ stack[k].func # 0 => mod[stack[k].func].base = stack[k].name
  /\ \A k \in DOMAIN lookups :
       \A N \in DOMAIN ir.nodes :
         LET def == FirstDefined(N)
             sym == IF ir.nodes[N].tag = "fun" THEN procsym(N) ELSE progsym(N)
         IN (/\ ir.nodes[N].tag \in {"fun", "quote"}
             /\ lookups[k].name = sym
             /\ def # UNDEF
             /\ def.kind = (IF ir.nodes[N].tag = "fun" THEN "proc" ELSE "prog"))
            => /\ lookups[k].func # Undefined
               /\ mod[lookups[k].func.a].base = sym

\* a fun node has looked up a Proc whose definition came from the overlay,
\* and a quote node a Prog of the base IR
C13_Witness ==
  /\ Active
  /\ \E k \in DOMAIN lookups :
       \E N \in DOMAIN variant.procs :
         /\ ir.nodes[N].tag = "fun" /\ lookups[k].name = procsym(N)
         /\ lookups[k].func # Undefined
  /\ \E k \in DOMAIN lookups :
       \E N \in DOMAIN ir.progs :
         /\ N \notin DOMAIN variant.progs /\ N \notin DOMAIN variant.procs
         /\ N \notin DOMAIN ir.procs
         /\ ir.nodes[N].tag = "quote" /\ lookups[k].name = progsym(N)
         /\ lookups[k].func # Undefined

\* --------------------------------------------------------------------------
\* Variables
\* --------------------------------------------------------------------------
\* index of the scope of an activation (main is 0)
ScopeIx(f) == IF f.scope.id = NULL THEN 0 ELSE f.scope.id

\* the final expression of the body of an activation's scope
FinalOf(f) == ir.nodes[FinalId(ScopeIx(f))]

\* the definition id a final Lookup / Let / Assign refers to
VarOf(f) ==
  IF FinalOf(f).tag = "let" THEN FinalId(ScopeIx(f)) ELSE ir.defuse[FinalId(ScopeIx(f))]

\* the final expression is a Lookup, Let or Assign of a non-extern variable
UsesVariable(f) ==
  /\ FinalOf(f).tag \in {"lookup", "let", "assign"}
  /\ FinalOf(f).tag # "let" => VarOf(f) \notin DOMAIN ir.externs

\* the instructions emitted for the body of an activation
BodyCode(f) ==
  SubSeq(mod[f.func].code, f.body_start + 1, Len(mod[f.func].code))

UnknownVariable ==
  {"Unknown variable name (lookup)", "Unknown variable name (assign helper)"}

IsPointer(v) == v.k = "inst" /\ mod[v.a].code[v.b].op \in {"alloca", "structgep"}

\* C14: a Lookup, Let or Assign of a non-extern variable that has no alloca
\* in named_values throws an unknown-variable error and emits no load or
\* store; with the alloca present a Lookup emits one load from it and returns
\* the loaded value, a Let / Assign emits one store of the right-hand-side
\* value to it and returns that value.
C14_VariableAccess ==
  /\ (stack # <<>> /\ Top.pc = "exit" /\ UsesVariable(Top)) =>
       LET code == mod[Top.func].code
           n == Len(code)
           id == VarOf(Top)
       IN /\ id \in DOMAIN nvs[named_values]
          /\ n >= Top.body_start + 2
          /\ Top.scope.children = <<>> => n = Top.body_start + 2
          /\ code[n].op = "ret"
          /\ IF FinalOf(Top).tag = "lookup"
             THEN /\ code[n - 1].op = "load"
                  /\ code[n - 1].args = <<nvs[named_values][id]>>
                  /\ code[n].args = <<InstVal(Top.func, n - 1)>>
             ELSE /\ code[n - 1].op = "store"
                  /\ code[n - 1].args = <<ConstVal("constint"), nvs[named_values][id]>>
                  /\ code[n].args = <<ConstVal("constint")>>
  /\ (status = "thrown" /\ error.msg \in UnknownVariable) =>
       LET f == Last(error.frames)
       IN /\ f.pc = "body" /\ UsesVariable(f)
          /\ VarOf(f) \notin DOMAIN nvs[named_values]
          /\ error.msg = (IF FinalOf(f).tag = "lookup"
                          THEN "Unknown variable name (lookup)"
                          ELSE "Unknown variable name (assign helper)")
          /\ f.scope.children = <<>> => BodyCode(f) = <<>>
          /\ \A i \in DOMAIN BodyCode(f) :
               /\ BodyCode(f)[i].op = "load" => IsPointer(BodyCode(f)[i].args[1])
               /\ BodyCode(f)[i].op = "store" => IsPointer(BodyCode(f)[i].args[2])

\* a Let has stored to the alloca made for it by the bound-id pass
C14_Witness ==
  /\ stack # <<>> /\ Top.pc = "exit" /\ FinalOf(Top).tag = "let"
  /\ FinalId(ScopeIx(Top)) \in DOMAIN nvs[named_values]

\* each of Lookup, Let and Assign has failed on a variable without alloca
C14_WitnessAbsent(tag) ==
  /\ status = "thrown" /\ error.msg \in UnknownVariable
  /\ FinalOf(Last(error.frames)).tag = tag

C14_WitnessLookupAbsent == C14_WitnessAbsent("lookup")
C14_WitnessLetAbsent == C14_WitnessAbsent("let")
C14_WitnessAssignAbsent == C14_WitnessAbsent("assign")

\* --------------------------------------------------------------------------
\* Unimplemented features
\* --------------------------------------------------------------------------
\* the final expression is an assignment to, or a lookup of, an extern
UsesExtern(f) ==
  /\ FinalOf(f).tag \in {"lookup", "assign"}
  /\ ir.defuse[FinalId(ScopeIx(f))] \in DOMAIN ir.externs

\* the error each unimplemented feature throws
NotImplementedError(f) ==
  IF FinalOf(f).tag = "lookup" THEN "not implemented"
  ELSE IF FinalOf(f).tag = "assign" THEN "not implemented yet"
  ELSE "visit " \o FinalOf(f).tag \o " not implemented"

Aborts(f, kinds) ==
  (FinalOf(f).tag \in kinds \/ UsesExtern(f)) => f.pc # "exit"

\* C15 (as claimed): emitting an assignment to an extern, a lookup of an
\* extern, or a node of kind Extern, Persist, Escape, If, While, MacroCall,
\* Tuple, TupleIndex, Alloc or TypeAlias aborts; the body that holds it never
\* produces a value.
C15_AllAbort ==
  \A k \in DOMAIN stack : Aborts(stack[k], NotImplementedKinds \cup PlaceholderKinds)

\* C15 (amended): an assignment to an extern, a lookup of an extern and the
\* node kinds Extern, Persist, Escape, If, While and MacroCall abort with a
\* not-implemented error and produce no value; Tuple, TupleIndex, Alloc and
\* TypeAlias nodes do not abort: they emit no instruction and produce the
\* 32-bit integer constant 0.
C15_NotImplemented ==
  /\ \A k \in DOMAIN stack : Aborts(stack[k], NotImplementedKinds)
  /\ (status = "thrown" /\ error.frames # <<>> /\ Last(error.frames).pc = "body"
        /\ (FinalOf(Last(error.frames)).tag \in NotImplementedKinds
              \/ UsesExtern(Last(error.frames)))) =>
       error.msg = NotImplementedError(Last(error.frames))
  /\ (stack # <<>> /\ Top.pc = "exit" /\ FinalOf(Top).tag \in PlaceholderKinds) =>
       LET code == mod[Top.func].code
       IN /\ Last(code).op = "ret" /\ Last(code).args = <<ConstVal("constint")>>
          /\ Top.scope.children = <<>> => Len(BodyCode(Top)) = 1
  /\ (status = "thrown" /\ error.frames # <<>> /\ Last(error.frames).pc = "body") =>
       FinalOf(Last(error.frames)).tag \notin PlaceholderKinds

\* a body ending in a Tuple node has returned the placeholder constant
C15_Witness ==
  stack # <<>> /\ Top.pc = "exit" /\ FinalOf(Top).tag = "tuple"

\* an extern lookup, an extern assignment and a While node have aborted
C15_WitnessAborted(tag) ==
  /\ status = "thrown" /\ error.frames # <<>> /\ Last(error.frames).pc = "body"
  /\ FinalOf(Last(error.frames)).tag = tag
  /\ error.msg = NotImplementedError(Last(error.frames))

C15_WitnessExternLookup == C15_WitnessAborted("lookup")
C15_WitnessExternAssign == C15_WitnessAborted("assign")
C15_WitnessWhile == C15_WitnessAborted("while")

\* --------------------------------------------------------------------------
\* Arithmetic
\* --------------------------------------------------------------------------
Numeric == {INT, FLOAT}

\* the value a literal operand of the given type is emitted as
OperandVal(type) ==
  IF type = INT THEN ConstVal("constint")
  ELSE IF type = FLOAT THEN ConstVal("constfloat")
  ELSE ConstVal("conststring")

\* an activation whose body is a binary node with operator + or *
IsArithmetic(f) == FinalOf(f).tag = "binary" /\ FinalOf(f).op \in {"+", "*"}

LeftType(f) == ir.type_table[LhsId(ScopeIx(f))][1]
RightType(f) == ir.type_table[RhsId(ScopeIx(f))][1]

\* C16: for a binary node with operator + or *: Int, Int emits the integer
\* operation and no cast; Float, Float the floating operation and no cast;
\* Int, Float one sitofp of the left operand and Float, Int one sitofp of the
\* right operand, then the floating operation on the cast and the other
\* operand; a pair with an operand that is neither Int nor Float throws
\* "Incompatible Operands" and emits nothing.
C16_BinaryPromotion ==
  /\ (stack # <<>> /\ Top.pc = "exit" /\ IsArithmetic(Top)) =>
       LET lt == LeftType(Top)
           rt == RightType(Top)
           l == OperandVal(lt)
           r == OperandVal(rt)
           code == BodyCode(Top)
           f == Top.func
           b == Top.body_start
           int_op == IF FinalOf(Top).op = "+" THEN "add" ELSE "mul"
           float_op == IF FinalOf(Top).op = "+" THEN "addf" ELSE "mulf"
       IN /\ {lt, rt} \subseteq Numeric
          /\ Last(code).op = "ret"
          /\ CASE lt = INT /\ rt = INT ->
                    /\ Len(code) = 2
                    /\ code[1].op = int_op /\ code[1].args = <<l, r>>
               [] lt = FLOAT /\ rt = FLOAT ->
                    /\ Len(code) = 2
                    /\ code[1].op = float_op /\ code[1].args = <<l, r>>
               [] lt = INT /\ rt = FLOAT ->
                    /\ Len(code) = 3
                    /\ code[1].op = "sitofp" /\ code[1].args = <<l>> /\ code[1].ty = double_t
                    /\ code[2].op = float_op /\ code[2].args = <<InstVal(f, b + 1), r>>
               [] lt = FLOAT /\ rt = INT ->
                    /\ Len(code) = 3
                    /\ code[1].op = "sitofp" /\ code[1].args = <<r>> /\ code[1].ty = double_t
                    /\ code[2].op = float_op /\ code[2].args = <<l, InstVal(f, b + 1)>>
          /\ Last(code).args = <<InstVal(f, b + Len(code) - 1)>>
  /\ (status = "thrown" /\ error.frames # <<>> /\ Last(error.frames).pc = "body"
        /\ IsArithmetic(Last(error.frames))) =>
       /\ {LeftType(Last(error.frames)), RightType(Last(error.frames))} \ Numeric # {}
       /\ error.msg = "Incompatible Operands"
       /\ BodyCode(Last(error.frames)) = <<>>

\* an Int times a Float has been emitted
C16_Witness ==
  /\ stack # <<>> /\ Top.pc = "exit" /\ IsArithmetic(Top)
  /\ FinalOf(Top).op = "*" /\ LeftType(Top) = INT /\ RightType(Top) = FLOAT

\* a Float plus an Int has been emitted; a Code operand has been refused
C16_WitnessRight ==
  /\ stack # <<>> /\ Top.pc = "exit" /\ IsArithmetic(Top)
  /\ FinalOf(Top).op = "+" /\ LeftType(Top) = FLOAT /\ RightType(Top) = INT

C16_WitnessRefused ==
  /\ status = "thrown" /\ error.msg = "Incompatible Operands"
  /\ LeftType(Last(error.frames)) = FLOAT
  /\ RightType(Last(error.frames)) = CodeType(INT)

\* --------------------------------------------------------------------------
\* Calls
\* --------------------------------------------------------------------------
\* the positions of the calls emitted for the body of an activation, in order
RECURSIVE Ascending(_)
Ascending(S) ==
  IF S = {} THEN <<>>
  ELSE LET x == CHOOSE x \in S : \A y \in S : x <= y
       IN <<x>> \o Ascending(S \ {x})

CallSites(f) ==
  Ascending({i \in DOMAIN mod[f.func].code :
               i > f.body_start /\ mod[f.func].code[i].op = "call"})

\* the Call / Run nodes of the body of an activation, in order of emission
CallNodes(f) ==
  LET s == ScopeIx(f)
      used == {j \in DOMAIN f.scope.children : ir.nodes[UseId(s, j)].tag \in {"call", "run"}}
  IN [k \in 1..Cardinality(used) |-> ir.nodes[UseId(s, Ascending(used)[k])]]

\* the argument nodes of a Call / Run node
ArgNodes(node) == [i \in 1..(Len(node.kids) - 1) |-> ir.nodes[node.kids[i + 1]]]

\* The call at position c of function g was emitted for node: the closure
\* value of the callee was built first, then stored and split into fn and
\* env, then the arguments were emitted left to right, and the call passes
\* fn the arguments in order followed by env.
CallMatches(g, c, node) ==
  LET code == mod[g].code
      args == ArgNodes(node)
      n == Len(args)
      loads == Cardinality({i \in 1..n : args[i].tag = "lookup"})
      p == c - 6 - loads
      callee == ir.nodes[node.kids[1]]
  IN /\ p > 2
     \* the callee expression: the closure over procN / progN
     /\ code[p - 1].op = "insertvalue" /\ code[p - 1].idx = 1
     /\ code[p - 2].op = "insertvalue" /\ code[p - 2].idx = 0
     /\ code[p - 2].args[2].k = "func"
     /\ mod[code[p - 2].args[2].a].name
          = (IF callee.tag = "fun" THEN procsym(node.kids[1]) ELSE progsym(node.kids[1]))
     \* unpack_closure
     /\ code[p].op = "alloca"
     /\ code[p + 1].op = "store" /\ code[p + 1].args = <<InstVal(g, p - 1), InstVal(g, p)>>
     /\ code[p + 2].op = "structgep" /\ code[p + 2].idx = 0
     /\ code[p + 2].args = <<InstVal(g, p)>>
     /\ code[p + 3].op = "load" /\ code[p + 3].args = <<InstVal(g, p + 2)>>
     /\ code[p + 4].op = "structgep" /\ code[p + 4].idx = 1
     /\ code[p + 4].args = <<InstVal(g, p)>>
     /\ code[p + 5].op = "load" /\ code[p + 5].args = <<InstVal(g, p + 4)>>
     \* the arguments, left to right
     /\ \A i \in 1..n :
          IF args[i].tag = "lookup"
          THEN LET q == p + 5 + Cardinality({i2 \in 1..i : args[i2].tag = "lookup"})
               IN /\ code[q].op = "load"
                  /\ code[q].name = varsym(ir.defuse[node.kids[i + 1]])
                  /\ code[c].args[i + 1] = InstVal(g, q)
          ELSE code[c].args[i + 1] = OperandVal(ir.type_table[node.kids[i + 1]][1])
     \* the call
     /\ Len(code[c].args) = n + 2
     /\ code[c].args[1] = InstVal(g, p + 3)
     /\ code[c].args[n + 2] = InstVal(g, p + 5)

\* C17: each call emitted for a Call node with n arguments comes after the
\* callee expression, the unpacking of its closure into fn and env and the n
\* arguments, emitted in that order and the arguments left to right; it calls
\* fn with n + 1 operands, the last one the env of the same closure.  A Run
\* node gives a call of fn with env as its only operand.
C17_CallOrder ==
  (stack # <<>> /\ Top.pc = "exit") =>
    /\ Len(CallSites(Top)) = Len(CallNodes(Top))
    /\ \A k \in DOMAIN CallSites(Top) :
         CallMatches(Top.func, CallSites(Top)[k], CallNodes(Top)[k])

\* a call with two arguments, a lookup and then a literal, and a run have
\* been emitted
C17_Witness ==
  /\ stack # <<>> /\ Top.pc = "exit"
  /\ \E k \in DOMAIN CallNodes(Top) :
       /\ Len(ArgNodes(CallNodes(Top)[k])) = 2
       /\ ArgNodes(CallNodes(Top)[k])[1].tag = "lookup"
       /\ ArgNodes(CallNodes(Top)[k])[2].tag = "literal"
  /\ \E k \in DOMAIN CallNodes(Top) : CallNodes(Top)[k].tag = "run"

\* --------------------------------------------------------------------------
\* Builders
\* --------------------------------------------------------------------------
IsWrapper(f) ==
  \E k \in DOMAIN runtime_declarations : mod[f].base = runtime_declarations[k][1] \o "_wrapper"

\* the functions emitted for scopes (main, Procs and Progs), one per emission
ScopeFunctions == {f \in DOMAIN mod : ~mod[f].declared /\ ~IsWrapper(f)}

\* C18: in a run that returned a module with k scope functions there were
\* exactly k + 1 builder frees: the builder of each scope function once, after
\* its ret was emitted, and the top-level builder once, last, after main was
\* emitted; in no state was a builder freed twice or used after its free.
C18_BuilderFrees ==
  /\ ~misuse
  /\ \A i, j \in DOMAIN frees : frees[i] = frees[j] => i = j
  /\ \A i \in DOMAIN frees :
       IF builders[frees[i]].func = 0
       THEN /\ frees[i] = 1 /\ i = Len(frees) /\ status = "returned"
            /\ \E f \in ScopeFunctions : mod[f].name = "main" /\ Complete(f)
       ELSE /\ builders[frees[i]].func \in ScopeFunctions
            /\ Complete(builders[frees[i]].func)
  /\ status = "returned" =>
       /\ Len(frees) = Cardinality(ScopeFunctions) + 1
       /\ Last(frees) = 1
       /\ \A f \in ScopeFunctions :
            Cardinality({i \in DOMAIN frees : builders[frees[i]].func = f}) = 1

\* a module with main, three more scope functions and the prelude wrappers
\* has been returned
C18_Witness ==
  /\ status = "returned"
  /\ Cardinality(ScopeFunctions) >= 4
  /\ \E f \in DOMAIN mod : IsWrapper(f)

\* --------------------------------------------------------------------------
\* Errors
\* --------------------------------------------------------------------------
UnsupportedType == {"Unsupported type in LLVM backend"}
UnknownScope == {"scope id not found"}
IncompatibleOperands == {"Incompatible Operand", "Incompatible Operands"}
UnknownOperator == {"Unknown unary op", "Unknown bin op"}
NotImplemented ==
  {"not implemented", "not implemented yet", "Persist not implemented yet",
   "persists not implemented yet"}
    \cup {"visit " \o kind \o " not implemented" : kind \in NotImplementedKinds}

Errors ==
  UnsupportedType \cup UnknownScope \cup UnknownVariable \cup IncompatibleOperands
    \cup UnknownOperator \cup NotImplemented

\* C19: an error raised during emission ends the codegen invocation: from the
\* throw on nothing is emitted, the error leaves codegen with every
\* activation unwound, no step follows it, and no module is returned.
C19_ErrorsAbort ==
  /\ ~late
  /\ (error # NoError) <=> (status = "thrown")
  /\ status = "thrown" =>
       /\ error.msg \in Errors
       /\ stack = <<>>
       /\ ~ENABLED Next

\* an error has left the body of a nested scope, with functions already in
\* the module
C19_Witness ==
  /\ status = "thrown" /\ Len(error.frames) >= 2
  /\ Last(error.frames).pc = "body" /\ Len(mod) >= 2

\* each kind of error has been raised
C19_WitnessUnsupportedType == status = "thrown" /\ error.msg \in UnsupportedType
C19_WitnessUnknownScope == status = "thrown" /\ error.msg \in UnknownScope
C19_WitnessIncompatibleOperand == status = "thrown" /\ error.msg = "Incompatible Operand"
C19_WitnessUnknownUnaryOp == status = "thrown" /\ error.msg = "Unknown unary op"
C19_WitnessUnknownBinaryOp == status = "thrown" /\ error.msg = "Unknown bin op"

\* --------------------------------------------------------------------------
\* Closure types
\* --------------------------------------------------------------------------
\* the fun / quote node whose closure is packed at a site
SiteNode(site) ==
  CHOOSE N \in DOMAIN ir.nodes :
    /\ ir.nodes[N].tag \in {"fun", "quote"}
    /\ mod[SiteCallee(site)].name
         = (IF ir.nodes[N].tag = "fun" THEN procsym(N) ELSE progsym(N))

\* the type of the closure value built at a site
SiteClosureType(site) == mod[site[1]].code[site[2] + 4].ty

IsClosureType(ty) ==
  /\ ty.t = "struct" /\ ty.packed /\ Len(ty.elems) = 2
  /\ ty.elems[1].t = "ptr" /\ ty.elems[1].to.t = "fn"
  /\ ty.elems[2] = ptr_t

\* C20: the closure value built for a fun or quote node is a packed struct
\* {fn_ptr, i8*}; its type equals llvm_type of the node's declared Fun / Code
\* type, fn_ptr points to the type under which the scope's function was
\* added to the module, and the Call / Run site that takes the closure
\* unpacks it through a slot of that same struct type.
C20_ClosureType ==
  \A site \in PackSites :
    SiteCallee(site) # 0 =>
      LET ty == SiteClosureType(site)
          code == mod[site[1]].code
          i == site[2]
      IN /\ IsClosureType(ty)
         /\ code[i + 3].ty = ty
         /\ ty = llvm_type(ir.type_table[SiteNode(site)][1])
         /\ ty.elems[1].to = mod[SiteCallee(site)].type
         /\ \A p \in DOMAIN code :
              (/\ code[p].op = "store" /\ code[p].args[1] = InstVal(site[1], i + 4)
               /\ p < Len(code) /\ code[p + 1].op = "structgep")
              => /\ code[p - 1].op = "alloca" /\ code[p].args[2] = InstVal(site[1], p - 1)
                 /\ code[p - 1].ty = ty

\* the closure of a Proc with two parameters of different types has been
\* packed and then unpacked for a call
C20_Witness ==
  \E site \in PackSites :
    /\ SiteCallee(site) # 0
    /\ Len(mod[SiteCallee(site)].type.args) = 3
    /\ mod[SiteCallee(site)].type.args[1] # mod[SiteCallee(site)].type.args[2]
    /\ \E p \in DOMAIN mod[site[1]].code :
         /\ mod[site[1]].code[p].op = "store"
         /\ mod[site[1]].code[p].args[1] = InstVal(site[1], site[2] + 4)

\* --------------------------------------------------------------------------
\* C21: the lowering of types
\* --------------------------------------------------------------------------
TypedVar == Last(ir.main.bound)
TypedAs == ir.type_table[TypedVar][1]

RECURSIVE Lowerable(_)
Lowerable(t) ==
  \/ t = INT
  \/ t = FLOAT
  \/ t.tag = "Fun" /\ Lowerable(t.ret) /\ \A i \in DOMAIN t.params : Lowerable(t.params[i])
  \/ t.tag = "Code" /\ Lowerable(t.inner)

RECURSIVE Lowered(_)
Lowered(t) ==
  CASE t = INT -> [t |-> "i32"]
    [] t = FLOAT -> [t |-> "double"]
    [] t.tag = "Fun" ->
         [t |-> "struct", packed |-> TRUE,
          elems |-> <<[t |-> "ptr",
                       to |-> [t |-> "fn", ret |-> Lowered(t.ret),
                               args |-> [i \in 1..Len(t.params) + 1 |->
                                           IF i <= Len(t.params) THEN Lowered(t.params[i])
                                           ELSE [t |-> "ptr", to |-> [t |-> "i8"]]]]],
                      [t |-> "ptr", to |-> [t |-> "i8"]]>>]
    [] t.tag = "Code" ->
         [t |-> "struct", packed |-> TRUE,
          elems |-> <<[t |-> "ptr",
                       to |-> [t |-> "fn", ret |-> Lowered(t.inner),
                               args |-> <<[t |-> "ptr", to |-> [t |-> "i8"]]>>]],
                      [t |-> "ptr", to |-> [t |-> "i8"]]>>]

TypedSlots ==
  {fi \in UNION {{<<f, i>> : i \in DOMAIN mod[f].code} : f \in DOMAIN mod} :
     /\ mod[fi[1]].code[fi[2]].op = "alloca"
     /\ mod[fi[1]].code[fi[2]].name = varsym(TypedVar)}

\* C21: a variable of type Int, Float, Fun or Code over lowerable types gets a
\* stack slot of exactly the lowered type (i32, double, packed struct of a
\* function pointer taking the lowered parameters and an i8* and of an i8*);
\* a variable of any other type, or of a Fun or Code type that has such a type
\* inside, gets no slot and the run fails with the unsupported-type error.
C21_TypeLowering ==
  /\ \A fi \in TypedSlots :
        Lowerable(TypedAs) /\ mod[fi[1]].code[fi[2]].ty = Lowered(TypedAs)
  /\ status = "thrown" <=>
        /\ ~Lowerable(TypedAs)
        /\ error.frames # <<>> /\ Last(error.frames).pc = "prologue"
        /\ Last(error.frames).scope = ir.main
  /\ status = "thrown" => error.msg = "Unsupported type in LLVM backend"
  /\ status = "returned" => TypedSlots # {}

C21_Witness ==
  /\ status = "returned"
  /\ TypedAs.tag = "Fun" /\ Len(TypedAs.params) = 2
  /\ TypedAs.params[2].tag = "Code"
  /\ \E fi \in TypedSlots : mod[fi[1]].code[fi[2]].ty = Lowered(TypedAs)

C21_WitnessRefused ==
  /\ status = "thrown"
  /\ TypedAs.tag = "Code" /\ TypedAs.inner.tag = "Fun" /\ TypedAs.inner.params = <<ANY>>

\* --------------------------------------------------------------------------
\* Sequences
\* --------------------------------------------------------------------------
\* the left-hand sides of the Sequence nodes down the right spine of a tree,
\* outermost first, and the expression at the end of the spine
RECURSIVE SeqLhs(_)
SeqLhs(id) ==
  LET tree == ir.nodes[id]
  IN IF tree.tag = "root" THEN SeqLhs(tree.kids[1])
     ELSE IF tree.tag = "seq" THEN <<tree.kids[1]>> \o SeqLhs(tree.kids[2])
     ELSE <<>>

RECURSIVE SeqLast(_)
SeqLast(id) ==
  LET tree == ir.nodes[id]
  IN IF tree.tag = "root" THEN SeqLast(tree.kids[1])
     ELSE IF tree.tag = "seq" THEN SeqLast(tree.kids[2])
     ELSE tree

Useful(id) == useful_pred(ir, id)

\* the positions of the closures packed in the body of an activation, in order
BodyPacks(f) ==
  Ascending({site[2] : site \in {x \in PackSites : x[1] = f.func /\ x[2] > f.body_start}})

\* C22: when the body of a scope has been emitted, the code of the body holds,
\* for each useful left-hand side down the spine of its Sequence nodes and in
\* their order, the packing of the callee and the call, then the code of the
\* last right-hand side, once, whose value is returned; a left-hand side that
\* is not useful has left no instruction (no load, no closure) and no error.
C22_Sequence ==
  (stack # <<>> /\ Top.pc = "exit") =>
    LET code == mod[Top.func].code
        n == Len(code)
        used == SelectSeq(SeqLhs(Top.scope.body), Useful)
        packs == BodyPacks(Top)
        calls == CallSites(Top)
        rest == IF calls = <<>> THEN Top.body_start ELSE Last(calls)
        last == SeqLast(Top.scope.body)
    IN /\ Len(packs) = Len(used) /\ Len(calls) = Len(used)
       /\ \A k \in DOMAIN used :
            /\ ir.nodes[used[k]].tag \in {"call", "run"}
            /\ mod[SiteCallee(<<Top.func, packs[k]>>)].base
                 = ScopeSym(ir.nodes[used[k]].kids[1])
            /\ packs[k] < calls[k]
            /\ k < Len(used) => calls[k] < packs[k + 1]
       /\ code[n].op = "ret"
       /\ last.tag = "literal" => n = rest + 1 /\ code[n].args[1].k = "constint"
       /\ last.tag = "lookup" =>
            /\ n = rest + 2 /\ code[n - 1].op = "load"
            /\ code[n].args = <<InstVal(Top.func, n - 1)>>

\* a body emitted with a left-hand side that is not useful and has a quote
\* or fun inside
C22_Witness ==
  /\ stack # <<>> /\ Top.pc = "exit" /\ Top.scope.free # <<>>
  /\ \E k \in DOMAIN SeqLhs(Top.scope.body) :
       LET lhs == ir.nodes[SeqLhs(Top.scope.body)[k]]
       IN /\ ~Useful(SeqLhs(Top.scope.body)[k])
          /\ lhs.tag = "seq" /\ ir.nodes[lhs.kids[1]].tag \in {"quote", "fun"}
  /\ BodyPacks(Top) = <<>>

C22_WitnessUseful ==
  /\ stack # <<>> /\ Top.pc = "exit"
  /\ Len(SelectSeq(SeqLhs(Top.scope.body), Useful)) = 2
  /\ Len(BodyPacks(Top)) = 2

\* --------------------------------------------------------------------------
\* The variables of a scope during its body
\* --------------------------------------------------------------------------
\* the ids a scope receives through its parameters and its environment
ReceivedIds(scope) ==
  Range(scope.params) \cup Range(scope.free)
    \cup (IF scope.kind = "prog"
          THEN {scope.owned_persist[k].id : k \in DOMAIN scope.owned_persist}
          ELSE {})

\* the stores of the prologue of an activation into a pointer
PrologueStores(f, ptr) ==
  {j \in 1..f.body_start :
     mod[f.func].code[j].op = "store" /\ mod[f.func].code[j].args[2] = ptr}

\* C23: from the start of the body of a scope to the end of its emission,
\* named_values has an entry exactly for the scope's parameters, its free ids
\* (for a Prog the owned_persist ids and the free ids) and its bound ids; each
\* entry is an alloca of the scope's function named after the id; the slots
\* of parameters and free ids were stored to in the prologue, the slots of
\* bound ids were not.
C23_NamedValues ==
  (stack # <<>> /\ Top.pc \in {"body", "exit"}) =>
    LET scope == Top.scope
        nv == nvs[named_values]
        code == mod[Top.func].code
    IN /\ DOMAIN nv = ReceivedIds(scope) \cup Range(scope.bound)
       /\ \A id \in DOMAIN nv :
            /\ nv[id].k = "inst" /\ nv[id].a = Top.func
            /\ nv[id].b <= Top.body_start
            /\ code[nv[id].b].op = "alloca" /\ code[nv[id].b].name = varsym(id)
            /\ id \in ReceivedIds(scope) => PrologueStores(Top, nv[id]) # {}
            /\ id \notin ReceivedIds(scope) => PrologueStores(Top, nv[id]) = {}

C23_Witness ==
  /\ stack # <<>> /\ Top.pc = "exit"
  /\ Top.scope.params # <<>> /\ Top.scope.free # <<>> /\ Top.scope.bound # <<>>
  /\ DOMAIN nvs[named_values] = ReceivedIds(Top.scope) \cup Range(Top.scope.bound)

C23_WitnessProg ==
  /\ stack # <<>> /\ Top.pc = "body"
  /\ Top.scope.kind = "prog" /\ Top.scope.owned_persist # <<>> /\ Len(Top.scope.free) = 2
  /\ Cardinality(DOMAIN nvs[named_values]) = 3

\* --------------------------------------------------------------------------
\* Captured variables
\* --------------------------------------------------------------------------
\* v is an alloca of function f
OwnAlloca(f, v) == v.k = "inst" /\ v.a = f /\ mod[f].code[v.b].op = "alloca"

\* v is the environment of function f: a cast of its last parameter
OwnEnv(f, v) ==
  /\ v.k = "inst" /\ v.a = f /\ mod[f].code[v.b].op = "bitcast"
  /\ mod[f].code[v.b].args[1] = ParamVal(f, Len(mod[f].type.args) - 1)

\* v is the address of a field of an alloca of f or of the environment of f
OwnField(f, v) ==
  /\ v.k = "inst" /\ v.a = f /\ mod[f].code[v.b].op = "structgep"
  /\ OwnAlloca(f, mod[f].code[v.b].args[1]) \/ OwnEnv(f, mod[f].code[v.b].args[1])

\* the activation has emitted an Assign to a free variable of a Proc or Prog
AssignedFree(f) ==
  /\ f.pc = "exit" /\ f.scope.id # NULL
  /\ FinalOf(f).tag = "assign" /\ VarOf(f) \in Range(f.scope.free)

\* C24: every store of a function writes to an alloca of that function, every
\* load reads an alloca of that function or a field of its own environment
\* or of one of its allocas; the store emitted for an Assign to a free
\* variable in a Proc or Prog writes to the function's slot of that variable.
C24_CapturedByCopy ==
  /\ \A f \in DOMAIN mod : \A i \in DOMAIN mod[f].code :
        LET ins == mod[f].code[i]
        IN /\ ins.op = "store" => OwnAlloca(f, ins.args[2])
           /\ ins.op = "load" => OwnAlloca(f, ins.args[1]) \/ OwnField(f, ins.args[1])
  /\ (stack # <<>> /\ AssignedFree(Top)) =>
        LET code == mod[Top.func].code
            n == Len(code)
        IN /\ code[n - 1].op = "store"
           /\ code[n - 1].args[2] = nvs[named_values][VarOf(Top)]
           /\ OwnAlloca(Top.func, code[n - 1].args[2])
           /\ mod[Top.func].code[code[n - 1].args[2].b].name = varsym(VarOf(Top))

C24_Witness ==
  /\ stack # <<>> /\ AssignedFree(Top) /\ Top.scope.kind = "proc"
  /\ Top.scope.params # <<>>
  /\ mod[Top.func].code[Len(mod[Top.func].code) - 1].op = "store"

C24_WitnessProg ==
  /\ stack # <<>> /\ AssignedFree(Top) /\ Top.scope.kind = "prog"

\* --------------------------------------------------------------------------
\* Packing over a variable with no slot
\* --------------------------------------------------------------------------
\* the loads of the module that read through undefined
UndefinedLoads ==
  {fi \in UNION {{<<f, i>> : i \in DOMAIN mod[f].code} : f \in DOMAIN mod} :
     mod[fi[1]].code[fi[2]].op = "load" /\ mod[fi[1]].code[fi[2]].args[1] = UNDEF}

\* C25: no load reads through undefined, and a run that fails where a
\* closure is packed over a variable with no slot in named_values fails with
\* the unknown-variable error.
C25_PackChecked ==
  /\ UndefinedLoads = {}
  /\ (status = "thrown" /\ error.frames # <<>> /\ Last(error.frames).pc = "body") =>
       error.msg \in UnknownVariable

\* a module returned with a load through undefined in it
C25_LoadBuilt == status = "returned" /\ UndefinedLoads # {}

\* a run ended in the native binding
C25_BindingFailed == status = "thrown" /\ error.msg = "TypeError: undefined pointer"

\* --------------------------------------------------------------------------
\* Builders at the return of codegen
\* --------------------------------------------------------------------------
\* the builders that were created and not freed
LiveBuilders == {b \in DOMAIN builders : ~builders[b].freed}

\* C26: when codegen has returned the module, every builder created during
\* the run has been freed: the top-level builder, the builder of each scope
\* function and the builder of each runtime wrapper.
C26_AllBuildersFreed == status = "returned" => LiveBuilders = {}

\* a run without the prelude returned with every builder freed
C26_ScopeBuildersFreed ==
  /\ status = "returned" /\ Len(builders) >= 3
  /\ LiveBuilders = {}

\* a run returned with the builders of the wrappers, and only those, alive
C26_WrapperBuildersLive ==
  /\ status = "returned" /\ LiveBuilders # {}
  /\ \A b \in LiveBuilders : mod[builders[b].func].base \notin {"main"} \cup {ScopeSym(id) : id \in DOMAIN ir.procs \cup DOMAIN ir.progs}

\* --------------------------------------------------------------------------
\* Closures over an overridden scope
\* --------------------------------------------------------------------------
\* the scope ids the active variant overrides
Overridden ==
  IF variant = NoVariant THEN {} ELSE DOMAIN variant.procs \cup DOMAIN variant.progs

\* the fun / quote nodes whose closures the body of an activation packed, in
\* order
PackedNodes(f) ==
  LET used == SelectSeq(SeqLhs(f.scope.body), Useful)
  IN [k \in DOMAIN used |-> ir.nodes[used[k]].kids[1]]

C27_EnvDiffers ==
  /\ stack # <<>> /\ Top.pc = "exit"
  /\ \E k \in DOMAIN PackedNodes(Top) :
       LET N == PackedNodes(Top)[k]
           site == <<Top.func, BodyPacks(Top)[k]>>
           g == SiteCallee(site)
       IN /\ N \in Overridden /\ g # 0
          /\ mod[g].base = emit_scope(N).frame.name
          /\ SiteClosureType(site).elems[1].to = mod[g].type
          /\ ~PackMatches(site, emit_scope(N).frame.free_ids)
          /\ UnpackMatches(g, emit_scope(N).frame.free_ids)

\* the closure of an overridden scope agrees with the function emitted for it
C27_Agrees ==
  /\ stack # <<>> /\ Top.pc = "exit"
  /\ \E k \in DOMAIN PackedNodes(Top) :
       LET N == PackedNodes(Top)[k]
           site == <<Top.func, BodyPacks(Top)[k]>>
           g == SiteCallee(site)
       IN /\ N \in Overridden /\ g # 0
          /\ mod[g].base = emit_scope(N).frame.name
          /\ PackMatches(site, emit_scope(N).frame.free_ids)
          /\ UnpackMatches(g, emit_scope(N).frame.free_ids)

\* --------------------------------------------------------------------------
\* Builder swaps
\* --------------------------------------------------------------------------
\* the builders of scope functions that were created and not freed
LiveScopeBuilders ==
  {b \in DOMAIN builders : ~builders[b].freed /\ builders[b].func \in ScopeFunctions}

\* C28: an activation that has entered emit_fun is the innermost one, and the
\* builder and the named_values it saved at entry are the top-level builder,
\* not freed, and the empty top-level map; at most one builder of a scope
\* function is alive.
C28_SwapsNeverNest ==
  /\ \A k \in DOMAIN stack :
        stack[k].pc # "subscopes" =>
          /\ k = Len(stack)
          /\ stack[k].old_builder = 1
          /\ builders[1].func = 0 /\ ~builders[1].freed
          /\ stack[k].old_named_values = 1 /\ nvs[1] = <<>>
  /\ Cardinality(LiveScopeBuilders) <= 1

\* a scope with an emitted child is in its body, two activations deep
C28_Witness ==
  /\ Len(stack) = 2 /\ Top.pc = "body" /\ Top.scope.children # <<>>
  /\ Len(frees) >= 1
  /\ Top.old_builder = 1 /\ builder # 1
  /\ Cardinality(LiveScopeBuilders) = 1
====
